---- MODULE Spec2Model ----
(***************************************************************************)
(* KMJ indicator pipeline of FableFatale/KMJ.                              *)
(*                                                                         *)
(* A DataFrame is a record [kind, n, cols]: n rows and a function from    *)
(* column names to sequences of n cells.  Price cells are integers, NaN    *)
(* (missing) or a non-numeric string.  Indicator cells are exact rationals *)
(* num/den; numerators and denominators are two-limb integers <<hi, lo>>   *)
(* of value hi*BigBase + lo, because the normalised harmonic weights of    *)
(* src/src/core/kmj_indicator.py have the denominator 6 * 837527025.       *)
(* Technical scores are fractions of signed integers of any size, and a    *)
(* stock list is a DataFrame with one row per stock.                       *)
(***************************************************************************)
EXTENDS Integers, Sequences, FiniteSets, TLC

VARIABLES data, ret, err, op, calls, settings, fetch

vars == <<data, ret, err, op, calls, settings, fetch>>

----------------------------------------------------------------------------
(* Bounds of the checked input family *)

MaxBars == 26
MaxCalls == 2
BasePrice == 4
MaxStep == 1
MaxJump == 2
StepFrom == 19
LimitBase == 2000
LimitRise == 197
VolBase == 2
TrendStart == 20
DipFrom == 26
SpikeHeight == 60
DentBar == 5
VolBlock == 10
MomentumBase == 20
TouchBars == 29
TouchBase == 20
TouchDrop == 12

----------------------------------------------------------------------------
(* Exact arithmetic on two-limb integers *)

BigBase == 1000000

BigNorm(h, l) == <<h + (l \div BigBase), l % BigBase>>

Big(i) == BigNorm(0, i)

BigAdd(x, y) == BigNorm(x[1] + y[1], x[2] + y[2])

BigMulSmall(x, k) == BigNorm(x[1] * k, x[2] * k)

BigNeg(x) == BigNorm(0 - x[1], 0 - x[2])

BigSub(x, y) == BigAdd(x, BigNeg(y))

BigLess(x, y) == x[1] < y[1] \/ (x[1] = y[1] /\ x[2] < y[2])

BigZero == <<0, 0>>

BigToInt(x) == x[1] * BigBase + x[2]

----------------------------------------------------------------------------
(* Cells *)

Num(v) == [k |-> "num", v |-> v]
NaNCell == [k |-> "nan", v |-> 0]
StrCell == [k |-> "str", v |-> 0]

Rat(num, den) == [k |-> "num", num |-> num, den |-> den]
RatNaN == [k |-> "nan", num |-> BigZero, den |-> Big(1)]
RatInt(i) == Rat(Big(i), Big(1))

BoolCell(b) == [k |-> "bool", v |-> b]
IntCell(i) == [k |-> "int", v |-> i]

IsNum(c) == c.k = "num"
IsNaN(c) == c.k = "nan"

(* a/b and c/d compared after bringing both to the denominator b*m or d*m *)
(* when one side is a mean of m <= 5 bars of the other; equal denominators *)
(* compare numerators directly.                                            *)
RatAlign(a, b) ==
    IF a.den = b.den THEN <<a.num, b.num>>
    ELSE IF \E m \in 2..5 : BigMulSmall(a.den, m) = b.den
    THEN <<BigMulSmall(a.num, CHOOSE m \in 2..5 : BigMulSmall(a.den, m) = b.den), b.num>>
    ELSE IF \E m \in 2..5 : BigMulSmall(b.den, m) = a.den
    THEN <<a.num, BigMulSmall(b.num, CHOOSE m \in 2..5 : BigMulSmall(b.den, m) = a.den)>>
    ELSE <<BigMulSmall(a.num, BigToInt(b.den)), BigMulSmall(b.num, BigToInt(a.den))>>

(* float comparisons: any comparison with NaN is False *)
Gt(a, b) == IsNum(a) /\ IsNum(b) /\ BigLess(RatAlign(a, b)[2], RatAlign(a, b)[1])
Lt(a, b) == IsNum(a) /\ IsNum(b) /\ BigLess(RatAlign(a, b)[1], RatAlign(a, b)[2])
Ge(a, b) == IsNum(a) /\ IsNum(b) /\ ~BigLess(RatAlign(a, b)[1], RatAlign(a, b)[2])
Le(a, b) == IsNum(a) /\ IsNum(b) /\ ~BigLess(RatAlign(a, b)[2], RatAlign(a, b)[1])
RatEq(a, b) == IsNum(a) /\ IsNum(b) /\ RatAlign(a, b)[1] = RatAlign(a, b)[2]

----------------------------------------------------------------------------
(* DataFrames *)

NoCols == [c \in {} |-> <<>>]

Frame(n, cols) == [kind |-> "frame", n |-> n, cols |-> cols]
NoneObj == [kind |-> "None", n |-> 0, cols |-> NoCols]
NoRet == [kind |-> "noret", n |-> 0, cols |-> NoCols]
EmptyDataFrame == Frame(0, NoCols)

IsFrame(f) == f.kind = "frame"
IsNone(f) == f.kind = "None"
HasCol(f, c) == c \in DOMAIN f.cols
IsEmpty(f) == f.n = 0 \/ DOMAIN f.cols = {}

SetCol(f, c, s) == [f EXCEPT !.cols = (c :> s) @@ f.cols]

ConstCol(f, cell) == [i \in 1..f.n |-> cell]

OHLC == {"open", "high", "low", "close"}

At(s, i) == s[i + 1]

(* the only element of a one-element set: The({ e(x) : x \in {v} }) is    *)
(* e(v) with v worked out once                                             *)
The(S) == CHOOSE x \in S : TRUE

Max2(a, b) == IF a >= b THEN a ELSE b
Min2(a, b) == IF a <= b THEN a ELSE b

----------------------------------------------------------------------------
(* src/src/core/kmj_indicator.py *)

CoreWindow == 20
(* least common multiple of the denominators 1..20 of the weights *)
HarmonicLcm == 16 * 9 * 5 * 7 * 11 * 13 * 17 * 19

(* weights = [1/(i+1) for i in range(20)], as numerators over HarmonicLcm *)
CoreRawWeight(i) == HarmonicLcm \div (i + 1)

(* weights = weights[::-1] *)
CoreWeight(k) == CoreRawWeight(CoreWindow - 1 - k)

RECURSIVE CoreWeightSumFrom(_)
CoreWeightSumFrom(k) ==
    IF k = CoreWindow THEN 0 ELSE CoreWeight(k) + CoreWeightSumFrom(k + 1)

(* variant: the normaliser leaves out the weight of the oldest bar *)
CoreWeightSumShort == CoreWeightSumFrom(1)

(* weights.sum(), the normaliser of line 23 *)
CoreWeightSum == CoreWeightSumFrom(0)

(* some cell of an arithmetic operand is a str: the expression raises TypeError *)
AnyStr(f, names) == \E c \in names : \E i \in 1..f.n : f.cols[c][i].k = "str"

(* variant: close counted twice instead of three times *)
KMJ1CellCloseTwice(f, i) ==
    IF \E c \in OHLC : IsNaN(f.cols[c][i]) THEN RatNaN
    ELSE Rat(Big(f.cols["low"][i].v + f.cols["high"][i].v
                 + f.cols["open"][i].v + 2 * f.cols["close"][i].v), Big(6))

(* (low + high + open + 3 * close) / 6, elementwise, NaN propagating *)
KMJ1Cell(f, i) ==
    IF \E c \in OHLC : IsNaN(f.cols[c][i]) THEN RatNaN
    ELSE Rat(Big(f.cols["low"][i].v + f.cols["high"][i].v
                 + f.cols["open"][i].v + 3 * f.cols["close"][i].v), Big(6))

KMJ1Column(f) == [i \in 1..f.n |-> KMJ1Cell(f, i)]

(* np.sum(values * weights) for values = KMJ1.iloc[i-20:i] *)
RECURSIVE CoreDot(_, _, _)
CoreDot(kmj1, i, k) ==
    IF k = CoreWindow THEN BigZero
    ELSE BigAdd(BigMulSmall(Big(CoreWeight(k)), BigToInt(At(kmj1, i - CoreWindow + k).num)),
                CoreDot(kmj1, i, k + 1))

(* variant: the first value one bar late, i <= 20 in place of i < 20 *)
CoreKMJ2CellLate(kmj1, i) ==
    IF i <= 20 THEN RatNaN
    ELSE IF \E k \in 0..(CoreWindow - 1) : IsNaN(At(kmj1, i - CoreWindow + k)) THEN RatNaN
    ELSE Rat(CoreDot(kmj1, i, 0), BigMulSmall(Big(CoreWeightSum), 6))

CoreKMJ2Cell(kmj1, i) ==
    IF i < 20 THEN RatNaN
    ELSE IF \E k \in 0..(CoreWindow - 1) : IsNaN(At(kmj1, i - CoreWindow + k)) THEN RatNaN
    ELSE Rat(CoreDot(kmj1, i, 0), BigMulSmall(Big(CoreWeightSum), 6))

CoreKMJ2Column(kmj1) == [j \in 1..Len(kmj1) |-> CoreKMJ2Cell(kmj1, j - 1)]

(* Series.rolling(window=w).mean(): NaN until w observations, none of them NaN *)
RECURSIVE RollSum(_, _, _)
RollSum(s, i, w) ==
    IF w = 0 THEN BigZero ELSE BigAdd(At(s, i).num, RollSum(s, i - 1, w - 1))

(* variant: missing values inside the window summed as 0 *)
RollingMeanCellNaNAsZero(s, i, w) ==
    IF i < w - 1 THEN RatNaN
    ELSE IF IsNaN(At(s, i)) THEN RatNaN
    ELSE Rat(RollSum(s, i, w), BigMulSmall(At(s, i).den, w))

RollingMeanCell(s, i, w) ==
    IF i < w - 1 THEN RatNaN
    ELSE IF \E m \in 0..(w - 1) : IsNaN(At(s, i - m)) THEN RatNaN
    ELSE Rat(RollSum(s, i, w), BigMulSmall(At(s, i).den, w))

RollingMean(s, w) == [j \in 1..Len(s) |-> RollingMeanCell(s, j - 1, w)]

(* KMJ_TREND = 0, then 1 where KMJ2 > KMJ3, then -1 where KMJ2 < KMJ3 *)
CoreTrendCell(k2, k3) ==
    IF Lt(k2, k3) THEN IntCell(-1) ELSE IF Gt(k2, k3) THEN IntCell(1) ELSE IntCell(0)

CoreTrendColumn(k2, k3) == [j \in 1..Len(k2) |-> CoreTrendCell(k2[j], k3[j])]

Result(r, e, d) == [ret |-> r, err |-> e, data |-> d]

(* the body of the try block, lines 15-41 *)
CoreAnnotate(f) ==
    LET k1 == KMJ1Column(f)
        k2 == CoreKMJ2Column(k1)
        k3 == RollingMean(k2, 5)
    IN  SetCol(SetCol(SetCol(SetCol(f, "KMJ1", k1), "KMJ2", k2), "KMJ3", k3),
               "KMJ_TREND", CoreTrendColumn(k2, k3))

(* variant: the emptiness check inside the try block, its error swallowed *)
CoreCalculateKmjIndicatorsGuardInTry(d) ==
    IF IsNone(d) \/ IsEmpty(d) THEN Result(d, "none", d)
    ELSE IF ~(OHLC \subseteq DOMAIN d.cols) \/ AnyStr(d, OHLC) THEN Result(d, "none", d)
    ELSE Result(CoreAnnotate(d), "none", d)

CoreCalculateKmjIndicators(d) ==
    IF IsNone(d) \/ IsEmpty(d) THEN Result(NoRet, "ValueError", d)
    ELSE IF ~(OHLC \subseteq DOMAIN d.cols) \/ AnyStr(d, OHLC) THEN Result(d, "none", d)
    ELSE Result(CoreAnnotate(d), "none", d)

(* lines 64-72: the crossover scan; comparisons with NaN are False *)
CoreBuyAt(k2, k3, i) ==
    i >= 1 /\ Lt(At(k2, i - 1), At(k3, i - 1)) /\ Gt(At(k2, i), At(k3, i))

CoreSellAt(k2, k3, i) ==
    /\ i >= 1
    /\ ~CoreBuyAt(k2, k3, i)
    /\ Gt(At(k2, i - 1), At(k3, i - 1)) /\ Lt(At(k2, i), At(k3, i))

CoreSignalColumns(f) ==
    SetCol(SetCol(f, "KMJ_BUY_SIGNAL",
                  [j \in 1..f.n |-> BoolCell(CoreBuyAt(f.cols["KMJ2"], f.cols["KMJ3"], j - 1))]),
           "KMJ_SELL_SIGNAL",
           [j \in 1..f.n |-> BoolCell(CoreSellAt(f.cols["KMJ2"], f.cols["KMJ3"], j - 1))])

CoreGetKmjSignals(d) ==
    IF IsNone(d) THEN Result(d, "none", d)
    ELSE LET inner == IF HasCol(d, "KMJ2") /\ HasCol(d, "KMJ3")
                      THEN Result(d, "none", d)
                      ELSE CoreCalculateKmjIndicators(d)
             df == inner.ret
         IN  IF inner.err # "none" THEN Result(d, "none", d)
             ELSE IF HasCol(df, "KMJ2") /\ HasCol(df, "KMJ3")
                  THEN Result(CoreSignalColumns(df), "none", d)
             ELSE IF df.n >= 2 THEN Result(d, "none", d)
             ELSE Result(SetCol(SetCol(df, "KMJ_BUY_SIGNAL", ConstCol(df, BoolCell(FALSE))),
                                "KMJ_SELL_SIGNAL", ConstCol(df, BoolCell(FALSE))),
                         "none", d)

----------------------------------------------------------------------------
(* src/stock_analyzer.py *)

AnalyzerWindow == 21
AnalyzerMinBars == 25

(* weights = np.array(range(21, 0, -1)) *)
AnalyzerWeight(k) == AnalyzerWindow - k

RECURSIVE AnalyzerWeightSumFrom(_)
AnalyzerWeightSumFrom(k) ==
    IF k = AnalyzerWindow THEN 0 ELSE AnalyzerWeight(k) + AnalyzerWeightSumFrom(k + 1)

AnalyzerWeightSum == AnalyzerWeightSumFrom(0)

(* np.sum(window * weights) for window = KMJ1.iloc[i-20:i+1] *)
RECURSIVE AnalyzerDot(_, _, _)
AnalyzerDot(kmj1, i, k) ==
    IF k = AnalyzerWindow THEN BigZero
    ELSE BigAdd(BigMulSmall(At(kmj1, i - 20 + k).num, AnalyzerWeight(k)),
                AnalyzerDot(kmj1, i, k + 1))

AnalyzerKMJ2Cell(kmj1, i) ==
    IF i < 20 THEN RatNaN
    ELSE IF \E k \in 0..(AnalyzerWindow - 1) : IsNaN(At(kmj1, i - 20 + k)) THEN RatNaN
    ELSE Rat(AnalyzerDot(kmj1, i, 0), BigMulSmall(At(kmj1, i).den, AnalyzerWeightSum))

AnalyzerKMJ2Column(kmj1) == [j \in 1..Len(kmj1) |-> AnalyzerKMJ2Cell(kmj1, j - 1)]

(* the caller's frame gains the columns in place and is itself returned *)
AnalyzerAnnotate(f) ==
    LET k1 == KMJ1Column(f)
        k2 == AnalyzerKMJ2Column(k1)
    IN  SetCol(SetCol(SetCol(f, "KMJ1", k1), "KMJ2", k2), "KMJ3", RollingMean(k2, 5))

(* variant: a short series handed back as it came (src/src/analysis) *)
AnalyzerCalculateKmjIndicatorsReturnInput(d) ==
    IF IsNone(d) THEN Result(NoRet, "TypeError", d)
    ELSE IF d.n < AnalyzerMinBars THEN Result(d, "none", d)
    ELSE IF ~(OHLC \subseteq DOMAIN d.cols) THEN Result(NoRet, "KeyError", d)
    ELSE IF AnyStr(d, OHLC) THEN Result(NoRet, "TypeError", d)
    ELSE Result(AnalyzerAnnotate(d), "none", AnalyzerAnnotate(d))

AnalyzerCalculateKmjIndicators(d) ==
    IF IsNone(d) THEN Result(NoRet, "TypeError", d)
    ELSE IF d.n < AnalyzerMinBars THEN Result(EmptyDataFrame, "none", d)
    ELSE IF ~(OHLC \subseteq DOMAIN d.cols) THEN Result(NoRet, "KeyError", d)
    ELSE IF AnyStr(d, OHLC) THEN Result(NoRet, "TypeError", d)
    ELSE Result(AnalyzerAnnotate(d), "none", AnalyzerAnnotate(d))

(* Series.shift(1): NaN in the first row *)
Shift1(s, i) == IF i = 0 THEN RatNaN ELSE At(s, i - 1)

AnalyzerTrendCell(k2, k3) == IF Ge(k2, k3) THEN IntCell(1) ELSE IntCell(-1)

AnalyzerBuyAt(k2, k3, i) ==
    Gt(At(k2, i), At(k3, i)) /\ Le(Shift1(k2, i), Shift1(k3, i))

(* variant: the earlier bar must have KMJ2 strictly above KMJ3 *)
AnalyzerSellAtStrict(k2, k3, i) ==
    Lt(At(k2, i), At(k3, i)) /\ Gt(Shift1(k2, i), Shift1(k3, i))

AnalyzerSellAt(k2, k3, i) ==
    Lt(At(k2, i), At(k3, i)) /\ Ge(Shift1(k2, i), Shift1(k3, i))

(* variant: a close exactly on the threshold counts as limit-up *)
LimitUpAtInclusive(close, i) ==
    /\ i >= 1
    /\ IsNum(At(close, i)) /\ IsNum(At(close, i - 1))
    /\ 10000 * At(close, i).v >= 10985 * At(close, i - 1).v

(* close > close.shift(1) * 1.0985, both sides times 10000 *)
LimitUpAt(close, i) ==
    /\ i >= 1
    /\ IsNum(At(close, i)) /\ IsNum(At(close, i - 1))
    /\ 10000 * At(close, i).v > 10985 * At(close, i - 1).v

KColorCell(o, c) ==
    IF IsNum(o) /\ IsNum(c) /\ c.v >= o.v THEN [k |-> "red", v |-> 0] ELSE [k |-> "blue", v |-> 0]

(* lines 52-56, which read only KMJ2 and KMJ3 *)
AnalyzerCrossColumns(f) ==
    LET k2 == f.cols["KMJ2"]
        k3 == f.cols["KMJ3"]
    IN  SetCol(SetCol(SetCol(f, "trend", [j \in 1..f.n |-> AnalyzerTrendCell(k2[j], k3[j])]),
                      "buy_signal", [j \in 1..f.n |-> BoolCell(AnalyzerBuyAt(k2, k3, j - 1))]),
               "sell_signal", [j \in 1..f.n |-> BoolCell(AnalyzerSellAt(k2, k3, j - 1))])

(* lines 59-62, which read close and open *)
AnalyzerPriceColumns(f) ==
    SetCol(SetCol(f, "limit_up", [j \in 1..f.n |-> BoolCell(LimitUpAt(f.cols["close"], j - 1))]),
           "k_color", [j \in 1..f.n |-> KColorCell(f.cols["open"][j], f.cols["close"][j])])

AnalyzerCalculateSignals(d) ==
    IF IsNone(d) THEN Result(NoRet, "TypeError", d)
    ELSE IF ~(HasCol(d, "KMJ2") /\ HasCol(d, "KMJ3")) THEN Result(NoRet, "KeyError", d)
    ELSE IF ~({"close", "open"} \subseteq DOMAIN d.cols)
         THEN Result(NoRet, "KeyError", AnalyzerCrossColumns(d))
    ELSE IF AnyStr(d, {"close", "open"})
         THEN Result(NoRet, "TypeError", AnalyzerCrossColumns(d))
    ELSE Result(AnalyzerPriceColumns(AnalyzerCrossColumns(d)), "none",
                AnalyzerPriceColumns(AnalyzerCrossColumns(d)))

----------------------------------------------------------------------------
(* src/kmj_indicator.py *)

(* rel_diff = KMJ2 / KMJ3 - 1 against the threshold 0.001: with a and b   *)
(* the numerators of KMJ2 and KMJ3 over a common positive denominator,     *)
(* a/b - 1 > 1/1000 is 1000*(a-b) > b for b > 0 and 1000*(a-b) < b for b < 0 *)
TrendScale == 1000

RelAbove(k2, k3) ==
    LET ab == RatAlign(k2, k3)
        diff == BigMulSmall(BigSub(ab[1], ab[2]), TrendScale)
    IN  IF BigLess(BigZero, ab[2]) THEN BigLess(ab[2], diff) ELSE BigLess(diff, ab[2])

RelBelow(k2, k3) ==
    LET ab == RatAlign(k2, k3)
        diff == BigMulSmall(BigSub(ab[1], ab[2]), TrendScale)
    IN  IF BigLess(BigZero, ab[2]) THEN BigLess(diff, BigNeg(ab[2]))
        ELSE BigLess(BigNeg(ab[2]), diff)

(* variant: the two-state comparison without the 0.1% band *)
TrendCellNoBand(k2, k3) ==
    IF IsNaN(k3) \/ k3.num = BigZero \/ IsNaN(k2) THEN IntCell(0)
    ELSE IF Lt(k2, k3) THEN IntCell(-1)
    ELSE IF Gt(k2, k3) THEN IntCell(1)
    ELSE IntCell(0)

TrendCell(k2, k3) ==
    IF IsNaN(k3) \/ k3.num = BigZero \/ IsNaN(k2) THEN IntCell(0)
    ELSE IF RelBelow(k2, k3) THEN IntCell(-1)
    ELSE IF RelAbove(k2, k3) THEN IntCell(1)
    ELSE IntCell(0)

AddTrendIndicator(d) ==
    IF IsNone(d) \/ IsEmpty(d) \/ ~HasCol(d, "KMJ2") \/ ~HasCol(d, "KMJ3")
    THEN Result(d, "none", d)
    ELSE Result(SetCol(d, "KMJ_TREND",
                       [j \in 1..d.n |-> TrendCell(d.cols["KMJ2"][j], d.cols["KMJ3"][j])]),
                "none", d)

(* pd.to_numeric(df_copy[col], errors='coerce'): a str cell becomes NaN *)
ToNumeric(f, names) ==
    [f EXCEPT !.cols = [c \in DOMAIN f.cols |->
        IF c \in names
        THEN [j \in 1..f.n |-> IF f.cols[c][j].k = "str" THEN NaNCell ELSE f.cols[c][j]]
        ELSE f.cols[c]]]

(* calculate_kmj1: the input itself when it is None, empty or lacks a price *)
(* column, else a copy with coerced prices and KMJ1                         *)
CalculateKmj1(d) ==
    IF IsNone(d) \/ IsEmpty(d) \/ ~(OHLC \subseteq DOMAIN d.cols) THEN d
    ELSE The({ SetCol(f, "KMJ1", KMJ1Column(f)) : f \in {ToNumeric(d, OHLC)} })

(* period of calculate_kmj2; weights = np.arange(1, period + 1) *)
RootWindow == 21

(* np.sum(weights[:len(x)]) = 1 + ... + len *)
Triangular(len) == (len * (len + 1)) \div 2

(* a common multiple of Triangular(1..RootWindow): every KMJ2 of one column *)
(* is kept over the same denominator                                        *)
TriangularLcm == 16 * 9 * 5 * 7 * 11 * 13 * 17 * 19

(* rolling(window=period, min_periods=1): the window of bar i holds the     *)
(* min(i + 1, period) bars that end at bar i                                *)
WindowLen(i, period) == Min2(i + 1, period)

(* np.sum(x * weights[:len(x)]) over the numerators of the window, oldest  *)
(* bar first: the newest bar carries the weight len                         *)
RECURSIVE RootDot(_, _, _, _)
RootDot(kmj1, i, len, k) ==
    IF k = len THEN 0
    ELSE (k + 1) * BigToInt(At(kmj1, i - len + 1 + k).num) + RootDot(kmj1, i, len, k + 1)

(* x * k for k below 1000 * 2147, in two steps that stay inside a limb *)
BigMulInt(x, k) ==
    BigAdd(BigMulSmall(BigMulSmall(x, k \div 1000), 1000), BigMulSmall(x, k % 1000))

(* dot / np.sum(weights[:len]) over the denominator den * TriangularLcm *)
WeightedMean(dot, len, den) ==
    Rat(BigMulInt(Big(TriangularLcm \div Triangular(len)), dot),
        BigMulSmall(Big(TriangularLcm), BigToInt(den)))

(* the lambda of line 70 on the window of bar i: NaN when the window holds *)
(* a NaN (np.sum propagates it), else the weighted mean; the cells of one   *)
(* KMJ1 column share their denominator                                      *)
RootKMJ2Cell(kmj1, i) ==
    IF \E k \in 0..(WindowLen(i, RootWindow) - 1) : IsNaN(At(kmj1, i - k)) THEN RatNaN
    ELSE WeightedMean(RootDot(kmj1, i, WindowLen(i, RootWindow), 0),
                      WindowLen(i, RootWindow), At(kmj1, i).den)

(* calculate_kmj2: the input itself without a KMJ1 column *)
CalculateKmj2(d) ==
    IF IsNone(d) \/ IsEmpty(d) \/ ~HasCol(d, "KMJ1") THEN d
    ELSE SetCol(d, "KMJ2", [j \in 1..d.n |-> RootKMJ2Cell(d.cols["KMJ1"], j - 1)])

(* the sum and the count of the values that are not NaN among the len bars *)
(* that end at bar i                                                        *)
RECURSIVE ObservedSum(_, _, _)
ObservedSum(s, i, len) ==
    IF len = 0 THEN BigZero
    ELSE IF IsNaN(At(s, i)) THEN ObservedSum(s, i - 1, len - 1)
    ELSE BigAdd(At(s, i).num, ObservedSum(s, i - 1, len - 1))

RECURSIVE ObservedCount(_, _, _)
ObservedCount(s, i, len) ==
    IF len = 0 THEN 0
    ELSE (IF IsNaN(At(s, i)) THEN 0 ELSE 1) + ObservedCount(s, i - 1, len - 1)

(* the denominator the observed values share *)
RECURSIVE ObservedDen(_, _)
ObservedDen(s, i) == IF IsNaN(At(s, i)) THEN ObservedDen(s, i - 1) ELSE At(s, i).den

(* rolling(window=period, min_periods=1).mean(): the mean of the observed   *)
(* values of the window, NaN when there is none                             *)
RootKMJ3Cell(k2, i, period) ==
    IF ObservedCount(k2, i, WindowLen(i, period)) = 0 THEN RatNaN
    ELSE Rat(ObservedSum(k2, i, WindowLen(i, period)),
             BigMulSmall(ObservedDen(k2, i), ObservedCount(k2, i, WindowLen(i, period))))

(* calculate_kmj3, period = 5: the input itself without a KMJ2 column *)
CalculateKmj3(d) ==
    IF IsNone(d) \/ IsEmpty(d) \/ ~HasCol(d, "KMJ2") THEN d
    ELSE SetCol(d, "KMJ3", [j \in 1..d.n |-> RootKMJ3Cell(d.cols["KMJ2"], j - 1, 5)])

(* calculate_kmj_indicators of src/kmj_indicator.py: the three columns in   *)
(* turn, then add_trend_indicator on what they returned                     *)
CalculateKmjIndicators(d) ==
    IF IsNone(d) \/ IsEmpty(d) THEN Result(d, "none", d)
    ELSE Result(The({ AddTrendIndicator(k3).ret :
                        k3 \in { CalculateKmj3(k2) :
                            k2 \in { CalculateKmj2(k1) : k1 \in {CalculateKmj1(d)} } } }),
                "none", d)

(* get_kmj_signals of src/kmj_indicator.py.  valid_data: KMJ2 and KMJ3 are *)
(* both numbers on the row                                                 *)
ValidAt(k2, k3, i) == IsNum(At(k2, i)) /\ IsNum(At(k3, i))

(* the row before row i in valid_df = df_copy[valid_data]: the nearest     *)
(* earlier valid row, -1 when there is none                                *)
RECURSIVE PrevValid(_, _, _)
PrevValid(k2, k3, i) ==
    IF i = 0 THEN -1
    ELSE IF ValidAt(k2, k3, i - 1) THEN i - 1
    ELSE PrevValid(k2, k3, i - 1)

(* lines 213-219: golden cross between consecutive rows of valid_df *)
RootBuyAt(k2, k3, i) ==
    /\ ValidAt(k2, k3, i) /\ PrevValid(k2, k3, i) >= 0
    /\ Lt(At(k2, PrevValid(k2, k3, i)), At(k3, PrevValid(k2, k3, i)))
    /\ Gt(At(k2, i), At(k3, i))

(* lines 221-223: death cross between consecutive rows of valid_df *)
RootSellAt(k2, k3, i) ==
    /\ ValidAt(k2, k3, i) /\ PrevValid(k2, k3, i) >= 0
    /\ Gt(At(k2, PrevValid(k2, k3, i)), At(k3, PrevValid(k2, k3, i)))
    /\ Lt(At(k2, i), At(k3, i))

(* both columns False, then the scan when there are two rows and a valid   *)
(* one; the signals of valid_df are copied back by index                   *)
GetKmjSignals(d) ==
    IF IsNone(d) \/ IsEmpty(d) \/ ~HasCol(d, "KMJ2") \/ ~HasCol(d, "KMJ3")
    THEN Result(d, "none", d)
    ELSE IF d.n < 2
    THEN Result(SetCol(SetCol(d, "KMJ_BUY_SIGNAL", ConstCol(d, BoolCell(FALSE))),
                       "KMJ_SELL_SIGNAL", ConstCol(d, BoolCell(FALSE))), "none", d)
    ELSE Result(SetCol(SetCol(d, "KMJ_BUY_SIGNAL",
                    [j \in 1..d.n |->
                        BoolCell(RootBuyAt(d.cols["KMJ2"], d.cols["KMJ3"], j - 1))]),
                  "KMJ_SELL_SIGNAL",
                    [j \in 1..d.n |->
                        BoolCell(RootSellAt(d.cols["KMJ2"], d.cols["KMJ3"], j - 1))]),
                "none", d)

----------------------------------------------------------------------------
(* Exact arithmetic for the scores: signed integers of any size, kept as   *)
(* a sign and a little-endian sequence of limbs below WBase without        *)
(* leading zeros, and fractions of two such integers                       *)

WBase == 10000

RECURSIVE MagFromNat(_)
MagFromNat(n) == IF n = 0 THEN <<>> ELSE <<n % WBase>> \o MagFromNat(n \div WBase)

RECURSIVE MagTrim(_)
MagTrim(a) ==
    IF a = <<>> THEN <<>>
    ELSE IF a[Len(a)] = 0 THEN MagTrim(SubSeq(a, 1, Len(a) - 1))
    ELSE a

MagHead(a) == IF a = <<>> THEN 0 ELSE Head(a)
MagTail(a) == IF a = <<>> THEN <<>> ELSE Tail(a)

RECURSIVE MagAddCarry(_, _, _)
MagAddCarry(a, b, c) ==
    IF a = <<>> /\ b = <<>> THEN MagFromNat(c)
    ELSE LET x == MagHead(a) + MagHead(b) + c
         IN  <<x % WBase>> \o MagAddCarry(MagTail(a), MagTail(b), x \div WBase)

MagAdd(a, b) == MagAddCarry(a, b, 0)

(* a - b - c for a >= b + c *)
RECURSIVE MagSubBorrow(_, _, _)
MagSubBorrow(a, b, c) ==
    IF a = <<>> THEN <<>>
    ELSE LET x == Head(a) - MagHead(b) - c
         IN  IF x < 0 THEN <<x + WBase>> \o MagSubBorrow(Tail(a), MagTail(b), 1)
             ELSE <<x>> \o MagSubBorrow(Tail(a), MagTail(b), 0)

MagSub(a, b) == MagTrim(MagSubBorrow(a, b, 0))

RECURSIVE MagLessFrom(_, _, _)
MagLessFrom(a, b, i) ==
    IF i = 0 THEN FALSE
    ELSE IF a[i] # b[i] THEN a[i] < b[i]
    ELSE MagLessFrom(a, b, i - 1)

MagLess(a, b) == IF Len(a) # Len(b) THEN Len(a) < Len(b) ELSE MagLessFrom(a, b, Len(a))

RECURSIVE MagMulLimb(_, _, _)
MagMulLimb(a, k, c) ==
    IF a = <<>> THEN MagFromNat(c)
    ELSE LET x == Head(a) * k + c
         IN  <<x % WBase>> \o MagMulLimb(Tail(a), k, x \div WBase)

MagShift(a) == IF a = <<>> THEN <<>> ELSE <<0>> \o a

RECURSIVE MagMul(_, _)
MagMul(a, b) ==
    IF a = <<>> \/ b = <<>> THEN <<>>
    ELSE MagAdd(MagTrim(MagMulLimb(a, Head(b), 0)), MagShift(MagMul(a, Tail(b))))

Wide(neg, mag) == [neg |-> neg /\ mag # <<>>, mag |-> mag]

WFromInt(i) == IF i < 0 THEN Wide(TRUE, MagFromNat(0 - i)) ELSE Wide(FALSE, MagFromNat(i))
WZero == WFromInt(0)
WNeg(x) == Wide(~x.neg, x.mag)
WAbs(x) == Wide(FALSE, x.mag)

WAdd(x, y) ==
    IF x.neg = y.neg THEN Wide(x.neg, MagAdd(x.mag, y.mag))
    ELSE IF MagLess(x.mag, y.mag) THEN Wide(y.neg, MagSub(y.mag, x.mag))
    ELSE Wide(x.neg, MagSub(x.mag, y.mag))

WSub(x, y) == WAdd(x, WNeg(y))
WMul(x, y) == Wide(x.neg # y.neg, MagMul(x.mag, y.mag))
WLess(x, y) == WSub(x, y).neg

(* the two-limb integer hi*BigBase + lo *)
WFromBig(x) == WAdd(WMul(WFromInt(x[1]), WFromInt(BigBase)), WFromInt(x[2]))

(* a fraction num/den, den > 0 *)
Frac(num, den) == [k |-> "num", num |-> num, den |-> den]
FracInt(i) == Frac(WFromInt(i), WFromInt(1))
(* n/d for d # 0 *)
FracOf(n, d) == IF d.neg THEN Frac(WNeg(n), WNeg(d)) ELSE Frac(n, d)
FracAdd(p, q) == Frac(WAdd(WMul(p.num, q.den), WMul(q.num, p.den)), WMul(p.den, q.den))
FracNeg(p) == Frac(WNeg(p.num), p.den)
FracSub(p, q) == FracAdd(p, FracNeg(q))
FracAbs(p) == Frac(WAbs(p.num), p.den)
FracLess(p, q) == WLess(WMul(p.num, q.den), WMul(q.num, p.den))
FracEq(p, q) == WMul(p.num, q.den) = WMul(q.num, p.den)
FracHalf(p) == Frac(p.num, WMul(p.den, WFromInt(2)))

(* Python's min(a, b) and max(a, b): the second argument wins only when it *)
(* is strictly smaller, respectively strictly larger                       *)
PyMin(a, b) == IF FracLess(b, a) THEN b ELSE a
PyMax(a, b) == IF FracLess(a, b) THEN b ELSE a

----------------------------------------------------------------------------
(* calculate_technical_score of src/src/core/stock_analyzer.py and of      *)
(* src/app.py.  A score is an exact fraction; the steps that raise inside  *)
(* the try block are predicates, and the except clause returns 0.0.        *)

ScoreObj(q) == [kind |-> "score", n |-> 1, cols |-> ("score" :> <<q>>)]
IsScore(r) == r.kind = "score"
ScoreOf(r) == r.cols["score"][1]

(* latest = data.iloc[-1] and data.iloc[-6] *)
Latest(f, c) == f.cols[c][f.n]
SixthLast(f, c) == f.cols[c][f.n - 5]

(* the trend step: up points for KMJ_TREND = 1, down points off for -1 *)
TrendTerm(f, up, down) ==
    IF ~HasCol(f, "KMJ_TREND") THEN FracInt(0)
    ELSE IF Latest(f, "KMJ_TREND") = IntCell(1) THEN FracInt(up)
    ELSE IF Latest(f, "KMJ_TREND") = IntCell(-1) THEN FracInt(0 - down)
    ELSE FracInt(0)

(* min(20, abs(KMJ2 - KMJ3) / KMJ3 * 100): min(20, nan) and min(20, inf)   *)
(* are 20, and a negative KMJ3 makes the quotient negative                 *)
SpreadTerm(f) ==
    IF ~(HasCol(f, "KMJ2") /\ HasCol(f, "KMJ3")) THEN FracInt(0)
    ELSE IF IsNaN(Latest(f, "KMJ2")) \/ IsNaN(Latest(f, "KMJ3")) THEN FracInt(20)
    ELSE LET ab == RatAlign(Latest(f, "KMJ2"), Latest(f, "KMJ3"))
             a == WFromBig(ab[1])
             b == WFromBig(ab[2])
         IN  IF b = WZero THEN FracInt(20)
             ELSE PyMin(FracInt(20), FracOf(WMul(WFromInt(100), WAbs(WSub(a, b))), b))

(* latest['close'] and data.iloc[-6]['close'] raise KeyError without the   *)
(* column and the division raises TypeError on a str                       *)
MomentumRaises(f) ==
    f.n > 5 /\ (~HasCol(f, "close")
                \/ Latest(f, "close").k = "str" \/ SixthLast(f, "close").k = "str")

(* price_change = (close[-1] / close[-6] - 1) * 100 in float64: nan from a *)
(* nan operand or 0/0, inf from a division of a positive close by zero     *)
PriceChange(f) ==
    LET c == Latest(f, "close")
        c6 == SixthLast(f, "close")
    IN  IF IsNaN(c) \/ IsNaN(c6) THEN [k |-> "nan", v |-> FracInt(0)]
        ELSE IF c6.v = 0 THEN (IF c.v = 0 THEN [k |-> "nan", v |-> FracInt(0)]
                               ELSE [k |-> "inf", v |-> FracInt(0)])
        ELSE [k |-> "num", v |-> FracOf(WFromInt(100 * (c.v - c6.v)), WFromInt(c6.v))]

(* core lines 37-43 *)
CoreMomentumTerm(f) ==
    IF f.n <= 5 THEN FracInt(0)
    ELSE LET pc == PriceChange(f)
         IN  IF pc.k = "inf" THEN FracInt(20)
             ELSE IF pc.k = "nan" THEN FracInt(-20)
             ELSE IF FracLess(FracInt(0), pc.v) THEN PyMin(FracInt(20), pc.v)
             ELSE FracNeg(PyMin(FracInt(20), FracAbs(pc.v)))

(* app lines 203-207: the else of line 208 belongs to `if len(data) > 5`,  *)
(* so a fall takes nothing off                                             *)
AppMomentumTerm(f) ==
    LET pc == PriceChange(f)
    IN  IF pc.k = "inf" THEN FracInt(20)
        ELSE IF pc.k = "nan" THEN FracInt(0)
        ELSE IF FracLess(FracInt(0), pc.v) THEN PyMin(FracInt(20), pc.v)
        ELSE FracInt(0)

(* Series.mean() over rows lo..hi: NaN cells are skipped, no cell left     *)
(* gives NaN                                                               *)
RECURSIVE VolSum(_, _, _)
VolSum(col, lo, hi) ==
    IF lo > hi THEN 0
    ELSE (IF IsNum(col[lo]) THEN col[lo].v ELSE 0) + VolSum(col, lo + 1, hi)

VolCount(col, lo, hi) == Cardinality({ j \in lo..hi : IsNum(col[j]) })

(* rows of tail(5) and of iloc[-10:-5], or of the whole column up to 10 bars *)
PrevFrom(f) == IF f.n > 10 THEN f.n - 9 ELSE 1
PrevTo(f) == IF f.n > 10 THEN f.n - 5 ELSE f.n

VolumeApplies(f) == HasCol(f, "volume") /\ f.n > 5

VolumeRaises(f) ==
    /\ VolumeApplies(f)
    /\ \E j \in ((f.n - 4)..f.n) \cup (PrevFrom(f)..PrevTo(f)) : f.cols["volume"][j].k = "str"

(* the guard of core line 52 *)
VolumeCounts(f) ==
    /\ VolumeApplies(f)
    /\ VolCount(f.cols["volume"], f.n - 4, f.n) > 0
    /\ VolCount(f.cols["volume"], PrevFrom(f), PrevTo(f)) > 0
    /\ VolSum(f.cols["volume"], PrevFrom(f), PrevTo(f)) > 0

(* vol_change = (avg_vol / prev_avg_vol - 1) * 100 *)
VolChange(f) ==
    LET v == f.cols["volume"]
        s5 == VolSum(v, f.n - 4, f.n)
        c5 == VolCount(v, f.n - 4, f.n)
        sp == VolSum(v, PrevFrom(f), PrevTo(f))
        cp == VolCount(v, PrevFrom(f), PrevTo(f))
    IN  FracOf(WFromInt(100 * (s5 * cp - sp * c5)), WFromInt(sp * c5))

CoreVolumeTerm(f) ==
    IF ~VolumeCounts(f) THEN FracInt(0)
    ELSE IF FracLess(FracInt(0), VolChange(f)) THEN PyMin(FracInt(10), VolChange(f))
    ELSE FracNeg(PyMin(FracInt(10), FracAbs(VolChange(f))))

AppVolumeTerm(f) ==
    IF ~VolumeCounts(f) THEN FracInt(0)
    ELSE IF FracLess(FracInt(0), VolChange(f)) THEN PyMin(FracInt(10), FracHalf(VolChange(f)))
    ELSE FracNeg(PyMin(FracInt(10), FracHalf(FracAbs(VolChange(f)))))

(* variant: no upper limit *)
ClampNoCeiling(q) == PyMax(FracInt(0), q)

(* max(0, min(100, score)) *)
Clamp(q) == PyMax(FracInt(0), PyMin(FracInt(100), q))

(* the largest k in lo..hi with k * d <= n *)
RECURSIVE FloorSearch(_, _, _, _)
FloorSearch(n, d, lo, hi) ==
    IF lo = hi THEN lo
    ELSE LET mid == (lo + hi + 1) \div 2
         IN  IF WLess(n, WMul(d, WFromInt(mid))) THEN FloorSearch(n, d, lo, mid - 1)
             ELSE FloorSearch(n, d, mid, hi)

(* k hundredths or k + 1, by the remainder of 100*q - k: halves go to the  *)
(* even hundredth                                                          *)
RoundFrom(q, k) ==
    LET twice == WMul(WSub(WMul(q.num, WFromInt(100)), WMul(q.den, WFromInt(k))),
                      WFromInt(2))
        up == WLess(q.den, twice) \/ (twice = q.den /\ k % 2 = 1)
    IN  Frac(WFromInt(IF up THEN k + 1 ELSE k), WFromInt(100))

(* round(q, 2) for 0 <= q <= 100 *)
Round2(q) ==
    The({ RoundFrom(q, k) :
            k \in {FloorSearch(WMul(q.num, WFromInt(100)), q.den, 0, 10000)} })

(* core lines 12-14: data = calculate_kmj_indicators(data), then           *)
(* data = get_kmj_signals(data)                                            *)
CoreScoreFrame(d) ==
    IF HasCol(d, "KMJ2") /\ HasCol(d, "KMJ3") THEN d
    ELSE The({ CoreGetKmjSignals(df).ret : df \in {CoreCalculateKmjIndicators(d).ret} })

CoreScoreRaises(f) == MomentumRaises(f) \/ VolumeRaises(f)

(* score = 50.0 and the four steps that add to it *)
SumOf(terms) == FracAdd(FracAdd(FracAdd(FracAdd(FracInt(50), terms[1]), terms[2]), terms[3]),
                        terms[4])

CoreScoreSum(f) ==
    The({ SumOf(terms) :
            terms \in {<<TrendTerm(f, 30, 30), SpreadTerm(f), CoreMomentumTerm(f),
                         CoreVolumeTerm(f)>>} })

(* lines 17-60 on the frame f *)
CoreScoreOf(f) ==
    IF CoreScoreRaises(f) THEN FracInt(0)
    ELSE The({ Round2(Clamp(q)) : q \in {CoreScoreSum(f)} })

CoreCalculateTechnicalScore(d) ==
    IF IsNone(d) \/ IsEmpty(d) THEN Result(ScoreObj(FracInt(0)), "none", d)
    ELSE Result(ScoreObj(The({ CoreScoreOf(f) : f \in {CoreScoreFrame(d)} })), "none", d)

(* app lines 179-180 *)
AppScoreFrame(d) ==
    IF HasCol(d, "KMJ1") THEN d ELSE CoreCalculateKmjIndicators(d).ret

(* with at most 5 bars line 209 reads price_change before it is bound *)
AppScoreRaises(f) == f.n <= 5 \/ MomentumRaises(f) \/ VolumeRaises(f)

AppScoreSum(f) ==
    The({ SumOf(terms) :
            terms \in {<<TrendTerm(f, 30, 20), SpreadTerm(f), AppMomentumTerm(f),
                         AppVolumeTerm(f)>>} })

(* lines 183-226 on the frame f *)
AppScoreOf(f) ==
    IF AppScoreRaises(f) THEN FracInt(0)
    ELSE The({ Clamp(q) : q \in {AppScoreSum(f)} })

(* variant: without the except clause an error reaches the caller *)
AppCalculateTechnicalScoreNoExcept(d) ==
    IF IsNone(d) \/ IsEmpty(d) THEN Result(ScoreObj(FracInt(0)), "none", d)
    ELSE The({ IF AppScoreRaises(f) THEN Result(NoRet, "Exception", d)
               ELSE Result(ScoreObj(AppScoreOf(f)), "none", d) : f \in {AppScoreFrame(d)} })

AppCalculateTechnicalScore(d) ==
    IF IsNone(d) \/ IsEmpty(d) THEN Result(ScoreObj(FracInt(0)), "none", d)
    ELSE Result(ScoreObj(The({ AppScoreOf(f) : f \in {AppScoreFrame(d)} })), "none", d)

----------------------------------------------------------------------------
(* screen_stocks of src/app.py.  A stock list is a frame with the columns  *)
(* symbol (a six-digit code), industry_category and technical_score.  The  *)
(* strings "all", "main", "chinext", "star" and "sme" stand for the board  *)
(* names of lines 256-271, "all" also for the category that selects        *)
(* everything.                                                             *)

SymbolCell(code) == [k |-> "symbol", v |-> code]
TextCell(t) == [k |-> "text", v |-> t]

(* the prefixes str.startswith tests for each board; None for a board the  *)
(* if/elif chain does not name, which filters nothing                      *)
BoardPrefixes(board) ==
    IF board = "main" THEN {600, 601, 603, 0}
    ELSE IF board = "chinext" THEN {300}
    ELSE IF board = "star" THEN {688}
    ELSE IF board = "sme" THEN {2}
    ELSE {}

BoardFilters(board) == board \in {"main", "chinext", "star", "sme"}

(* lines 249-271: the rows that pass the three filters, in frame order *)
PassesFilters(f, j, min_score, category, board) ==
    /\ IsNum(f.cols["technical_score"][j]) /\ f.cols["technical_score"][j].v >= min_score
    /\ category # "all" => f.cols["industry_category"][j] = TextCell(category)
    /\ BoardFilters(board) => (f.cols["symbol"][j].v \div 1000) \in BoardPrefixes(board)

Matching(f, min_score, category, board) ==
    { j \in 1..f.n : PassesFilters(f, j, min_score, category, board) }

TakeRows(f, idx) ==
    Frame(Len(idx), [c \in DOMAIN f.cols |-> [r \in 1..Len(idx) |-> f.cols[c][idx[r]]]])

(* the orders of the rows in keep by score descending *)
DescendingOrders(f, keep) ==
    { p \in [1..Cardinality(keep) -> keep] :
        /\ \A a, b \in 1..Cardinality(keep) : a # b => p[a] # p[b]
        /\ \A a \in 1..(Cardinality(keep) - 1) :
              f.cols["technical_score"][p[a]].v >= f.cols["technical_score"][p[a + 1]].v }

(* the one such order that keeps rows of equal score in frame order *)
StableOrders(f, keep) ==
    { p \in DescendingOrders(f, keep) :
        \A a \in 1..(Cardinality(keep) - 1) :
            f.cols["technical_score"][p[a]].v = f.cols["technical_score"][p[a + 1]].v
                => p[a] < p[a + 1] }

(* variant: the selection below the number of rows is not stable either *)
NLargestOrdersAnyTies(f, keep, n) ==
    IF n <= 0 THEN {<<>>}
    ELSE { SubSeq(p, 1, Min2(n, Cardinality(keep))) : p \in DescendingOrders(f, keep) }

(* DataFrame.nlargest(n, 'technical_score') with keep='first': for n below *)
(* the number of rows it selects with a stable mergesort; otherwise it is  *)
(* sort_values(ascending=False).head(n) with the default quicksort, which  *)
(* fixes no order among equal scores                                       *)
NLargestOrders(f, keep, n) ==
    IF n <= 0 THEN {<<>>}
    ELSE IF n >= Cardinality(keep) THEN DescendingOrders(f, keep)
    ELSE { SubSeq(p, 1, n) : p \in StableOrders(f, keep) }

ScreenStocks(d, min_score, category, board, max_stocks) ==
    IF IsNone(d) THEN {Result(NoRet, "TypeError", d)}
    ELSE IF ~HasCol(d, "technical_score")
            \/ (category # "all" /\ ~HasCol(d, "industry_category"))
            \/ (BoardFilters(board) /\ ~HasCol(d, "symbol"))
         THEN {Result(NoRet, "KeyError", d)}
    ELSE { Result(TakeRows(d, p), "none", d) :
             p \in NLargestOrders(d, Matching(d, min_score, category, board), max_stocks) }

(* main of src/app.py, lines 342-373: the fine-grained industry select box *)
(* is offered only under a selected category that has stocks, with their   *)
(* industries as options; a stored choice that is not an option falls back *)
(* to "all"                                                                *)
IndustryOptions(d, category) ==
    { d.cols["industry"][j].v :
        j \in { i \in 1..d.n : d.cols["industry_category"][i] = TextCell(category) } }

SelectedIndustry(d, s) ==
    IF s.category # "all" /\ s.industry \in IndustryOptions(d, s.category) THEN s.industry
    ELSE "all"

(* lines 409-410: the rows of the screened frame in the selected industry *)
IndustryRows(g, industry) ==
    { j \in 1..g.n : industry = "all" \/ g.cols["industry"][j] = TextCell(industry) }

(* lines 413-418: sort_values by score descending or by symbol *)
SymbolOrders(g, keep) ==
    { p \in [1..Cardinality(keep) -> keep] :
        \A a \in 1..(Cardinality(keep) - 1) :
            g.cols["symbol"][p[a]].v < g.cols["symbol"][p[a + 1]].v }

SortOrders(g, keep, sort_by) ==
    IF sort_by = "symbol" THEN SymbolOrders(g, keep) ELSE DescendingOrders(g, keep)

(* lines 399-420: screen_stocks, the industry filter, the sort, and the    *)
(* frame stored in st.session_state['filtered_stocks']                     *)
MainScreening(d, s) ==
    UNION { { Result(TakeRows(r.ret, p), "none", d) :
                p \in SortOrders(r.ret, IndustryRows(r.ret, SelectedIndustry(d, s)),
                                 s.sort_by) } :
            r \in ScreenStocks(d, s.min_score, s.category, s.board, s.max_stocks) }

----------------------------------------------------------------------------
(* get_stock_data of src/stock_data_fetcher.py.  A stock code is the       *)
(* sequence of its characters; fetch holds the position in the function,   *)
(* the code, the state of the cache file, the TDX server connect_tdx is at *)
(* and the log of the data sources asked so far with what each delivered.  *)

Digits == {"0", "1", "2", "3", "4", "5", "6", "7", "8", "9"}

(* ts_code.split('.'): the pieces between the dots *)
RECURSIVE SplitDots(_, _)
SplitDots(chars, piece) ==
    IF chars = <<>> THEN <<piece>>
    ELSE IF Head(chars) = "." THEN <<piece>> \o SplitDots(Tail(chars), <<>>)
    ELSE SplitDots(Tail(chars), Append(piece, Head(chars)))

Markets == {<<"S", "H">>, <<"S", "Z">>, <<"S", "S">>}

(* str.isdigit() is False for the empty string *)
IsDigit(code) == code # <<>> /\ \A i \in 1..Len(code) : code[i] \in Digits

IsValidStockCode(ts_code) ==
    /\ ts_code # <<>>
    /\ Len(SplitDots(ts_code, <<>>)) = 2
    /\ IsDigit(SplitDots(ts_code, <<>>)[1]) /\ Len(SplitDots(ts_code, <<>>)[1]) = 6
    /\ SplitDots(ts_code, <<>>)[2] \in Markets

(* lines 233-234 *)
IsTestCode(ts_code) ==
    /\ SplitDots(ts_code, <<>>)[1] = <<"0", "0", "0", "0", "0", "0">>
    /\ SplitDots(ts_code, <<>>)[2] = <<"X", "X">>

TdxServers == 7

FetchState(pc, ts_code, cache, server, log) ==
    [pc |-> pc, ts_code |-> ts_code, cache |-> cache, server |-> server, log |-> log]

FetchIdle == FetchState("idle", <<>>, "absent", 0, <<>>)

(* the frame a source delivered *)
Fetched(source) == Frame(1, ("source" :> <<[k |-> "text", v |-> source]>>))

----------------------------------------------------------------------------
(* Input series *)

ClosePrice(i, s1, d1, s2, d2) ==
    BasePrice + (IF i >= s1 THEN d1 ELSE 0) + (IF i >= s2 THEN d2 ELSE 0)

OpenPrice(i, s1, d1, s2, d2) ==
    IF i = 0 THEN ClosePrice(0, s1, d1, s2, d2) ELSE ClosePrice(i - 1, s1, d1, s2, d2)

BarSeries(n, s1, d1, s2, d2) ==
    Frame(n,
      ("open" :> [j \in 1..n |-> Num(OpenPrice(j - 1, s1, d1, s2, d2))])
   @@ ("high" :> [j \in 1..n |-> Num(Max2(OpenPrice(j - 1, s1, d1, s2, d2),
                                          ClosePrice(j - 1, s1, d1, s2, d2)) + 1)])
   @@ ("low" :> [j \in 1..n |-> Num(Min2(OpenPrice(j - 1, s1, d1, s2, d2),
                                         ClosePrice(j - 1, s1, d1, s2, d2)) - 1)])
   @@ ("close" :> [j \in 1..n |-> Num(ClosePrice(j - 1, s1, d1, s2, d2))]))

CleanInputs ==
    { BarSeries(n, s1, d1, s1 + g, d2) :
        n \in 0..MaxBars, s1 \in StepFrom..MaxBars, g \in 1..2,
        d1 \in (0 - MaxStep)..MaxStep, d2 \in {0 - MaxJump, 0, MaxJump} }

WithCell(f, c, i, cell) == [f EXCEPT !.cols[c][i] = cell]

(* one missing (NaN) or non-numeric (str) price in an otherwise flat series *)
DefectInputs ==
    UNION { { WithCell(BarSeries(n, 0, 0, 0, 0), c, p, cell) :
                p \in ({1} \cup (StepFrom..MaxBars)) \cap (1..n), c \in OHLC,
                cell \in {NaNCell, StrCell} } : n \in 1..MaxBars }

(* frames that already carry KMJ2 and KMJ3, two bars each *)
PairValues == {RatNaN} \cup { RatInt(v) : v \in {0, 998, 999, 1000, 1001, 1002, -999, -1000, -1001} }

PairFrame(a2, a3, b2, b3) ==
    Frame(2, ("KMJ2" :> <<a2, b2>>) @@ ("KMJ3" :> <<a3, b3>>))

PairInputs ==
    { PairFrame(a2, a3, b2, b3) :
        a2 \in PairValues, a3 \in PairValues, b2 \in {RatInt(1000), RatInt(1002)},
        b3 \in {RatInt(1000), RatInt(1001)} }

(* three bars around the limit-up threshold: LimitBase * 1.0985 is exactly *)
(* LimitBase + LimitRise; the frames carry KMJ2 and KMJ3, all undefined or *)
(* crossing at bars 1 and 2                                                *)
LimitCloses ==
    {NaNCell} \cup { Num(LimitBase + c) : c \in {0, LimitRise - 1, LimitRise, LimitRise + 1} }

LimitFrame(c0, c1, c2, k2, k3) ==
    Frame(3, ("open" :> <<c0, c0, c1>>) @@ ("close" :> <<c0, c1, c2>>)
          @@ ("KMJ2" :> k2) @@ ("KMJ3" :> k3))

LimitInputs ==
    { LimitFrame(c0, c1, c2, k[1], k[2]) :
        c0 \in {Num(LimitBase - LimitRise), Num(LimitBase)},
        c1 \in LimitCloses, c2 \in LimitCloses,
        k \in { <<(<<RatNaN, RatNaN, RatNaN>>), (<<RatNaN, RatNaN, RatNaN>>)>>,
                <<(<<RatInt(1000), RatInt(1000), RatInt(1002)>>),
                  (<<RatInt(1000), RatInt(1001), RatInt(1001)>>)>> } }

(* a flat series of n bars with a volume column: the last close, the close *)
(* five bars before it and the last five volumes vary                      *)
WithClose(f, j, cell) ==
    IF ~IsNum(cell) THEN WithCell(f, "close", j, cell)
    ELSE [f EXCEPT !.cols["close"][j] = cell,
                   !.cols["high"][j] = Num(Max2(@.v, cell.v)),
                   !.cols["low"][j] = Num(Min2(@.v, cell.v))]

TailVolume(f, vol) ==
    SetCol(f, "volume", [j \in 1..f.n |-> IF j > f.n - 5 THEN vol ELSE Num(VolBase)])

ScoreSeries(n, last, sixth, vol) ==
    LET f == WithClose(BarSeries(n, 0, 0, 0, 0), n, last)
    IN  TailVolume(IF n >= 6 THEN WithClose(f, n - 5, sixth) ELSE f, vol)

ScoreBars == {5, 6, 11}

ScoreInputs ==
    { ScoreSeries(n, last, sixth, vol) :
        n \in ScoreBars,
        last \in {Num(0), Num(BasePrice - 1), Num(BasePrice), Num(BasePrice + 1),
                  NaNCell, StrCell},
        sixth \in {Num(0), Num(BasePrice), NaNCell},
        vol \in {Num(0), Num(VolBase - 1), Num(VolBase), Num(VolBase + 1), NaNCell, StrCell} }

(* the longest stepped series with a volume column *)
VolumeInputs ==
    { TailVolume(BarSeries(MaxBars, s1, d1, s1 + 1, d2), vol) :
        s1 \in {MaxBars - 5, MaxBars - 2}, d1 \in {0 - MaxStep, MaxStep},
        d2 \in {0 - MaxJump, 0, MaxJump},
        vol \in {Num(VolBase - 1), Num(VolBase), Num(VolBase + 1)} }

(* a flat series of 10 or 11 bars whose last five volumes differ by one    *)
(* from the volume VolBlock of the bars before them                        *)
BlockVolume(n, recent) ==
    SetCol(BarSeries(n, 0, 0, 0, 0), "volume",
           [j \in 1..n |-> IF j > n - 5 THEN Num(recent) ELSE Num(VolBlock)])

BlockInputs ==
    { BlockVolume(n, v) : n \in {10, 11}, v \in {VolBlock - 1, VolBlock + 1} }

(* six bars whose close goes from MomentumBase on the first bar to a last  *)
(* close up to a half below or above it                                    *)
MomentumCloses ==
    ((MomentumBase - 2)..(MomentumBase + 2))
        \cup {MomentumBase \div 2, MomentumBase + MomentumBase \div 2}

MomentumInputs ==
    { ScoreSeries(6, Num(last), Num(MomentumBase), Num(VolBase)) : last \in MomentumCloses }

(* six bars that already carry the indicator columns *)
AnnotatedFrame(k2, k3, trend) ==
    LET f == TailVolume(BarSeries(6, 0, 0, 0, 0), Num(VolBase))
    IN  SetCol(SetCol(SetCol(SetCol(f, "KMJ1", ConstCol(f, RatInt(BasePrice))),
                             "KMJ2", ConstCol(f, k2)), "KMJ3", ConstCol(f, k3)),
               "KMJ_TREND", ConstCol(f, IntCell(trend)))

AnnotatedInputs ==
    { AnnotatedFrame(k2, k3, trend) :
        k2 \in {RatNaN, RatInt(0), RatInt(1000), RatInt(1002)},
        k3 \in {RatNaN, RatInt(0), RatInt(1000), RatInt(-1000)},
        trend \in {-1, 0, 1} }

(* test_technical_score: TrendBars closes rising or falling by one a bar,  *)
(* constant volume, open the previous close; three bars from DipFrom may   *)
(* have a low of 0 or a high raised by SpikeHeight                         *)
TrendBars == 30

TrendClose(i, dir) == IF dir = 1 THEN TrendStart + i ELSE TrendStart + TrendBars - 1 - i
TrendOpen(i, dir) == IF i = 0 THEN TrendClose(0, dir) ELSE TrendClose(i - 1, dir)
InDip(i) == i >= DipFrom /\ i <= DipFrom + 2

TrendSeries(dir, dip, spike) ==
    Frame(TrendBars,
      ("open" :> [j \in 1..TrendBars |-> Num(TrendOpen(j - 1, dir))])
   @@ ("high" :> [j \in 1..TrendBars |->
                    Num(Max2(TrendOpen(j - 1, dir), TrendClose(j - 1, dir)) + 1
                        + (IF spike /\ InDip(j - 1) THEN SpikeHeight ELSE 0))])
   @@ ("low" :> [j \in 1..TrendBars |->
                    Num(IF dip /\ InDip(j - 1) THEN 0
                        ELSE Min2(TrendOpen(j - 1, dir), TrendClose(j - 1, dir)) - 1)])
   @@ ("close" :> [j \in 1..TrendBars |-> Num(TrendClose(j - 1, dir))])
   @@ ("volume" :> [j \in 1..TrendBars |-> Num(VolBase)]))

(* stock lists of up to MaxStocks rows *)
MaxStocks == 3

(* row kinds: 1 main board, 2 main board with the lower score, 3 ChiNext, *)
(* 4 main board in another category; the symbol ends in the row number    *)
StockRow(j, kind) ==
    [symbol |-> SymbolCell((IF kind = 3 THEN 300000 ELSE 600000) + j),
     industry_category |-> TextCell(IF kind = 4 THEN "bank" ELSE "tech"),
     technical_score |-> Num(IF kind = 2 THEN 60 ELSE 80)]

StockList(rows) ==
    Frame(Len(rows),
        [c \in {"symbol", "industry_category", "technical_score"} |->
            [j \in 1..Len(rows) |-> StockRow(j, rows[j])[c]]])

StockInputs ==
    UNION { { StockList(rows) : rows \in [1..n -> 1..4] } : n \in 0..MaxStocks }

(* TouchBars bars with open = high = low = close: TouchBase on every bar   *)
(* but four, a drop by TouchDrop at bar 23, half of it regained above the  *)
(* base at bar 24, and a bar 25 and a bar 26 that are a little below or at *)
(* the base                                                                *)
TouchPrice(i, d25) ==
    IF i = 23 THEN TouchBase - TouchDrop
    ELSE IF i = 24 THEN TouchBase + TouchDrop \div 2
    ELSE IF i = 25 THEN TouchBase + d25
    ELSE IF i = 26 THEN TouchBase - 2
    ELSE TouchBase

TouchSeries(d25) ==
    Frame(TouchBars, [col \in OHLC |-> [j \in 1..TouchBars |-> Num(TouchPrice(j - 1, d25))]])

TouchInputs == { TouchSeries(d25) : d25 \in -3..0 }

(* stock lists as load_stock_list returns them, with the industry column:  *)
(* row kinds 1 software, 2 chips with the lower score, 3 chips             *)
ListedRow(j, kind) ==
    [symbol |-> SymbolCell(600000 + j),
     industry_category |-> TextCell("tech"),
     industry |-> TextCell(IF kind = 1 THEN "soft" ELSE "chip"),
     technical_score |-> Num(IF kind = 2 THEN 60 ELSE 80)]

ListedStocks(rows) ==
    Frame(Len(rows),
        [c \in {"symbol", "industry_category", "industry", "technical_score"} |->
            [j \in 1..Len(rows) |-> ListedRow(j, rows[j])[c]]])

ListedInputs ==
    UNION { { ListedStocks(rows) : rows \in [1..n -> 1..3] } : n \in 1..MaxStocks }

TrendInputs ==
    { TrendSeries(dir, dip, spike) : dir \in {1, -1}, dip \in BOOLEAN, spike \in BOOLEAN }

(* a constant-price series: open = high = low = close = c on every bar *)
ConstantSeries(n, c) ==
    Frame(n, [col \in OHLC |-> [j \in 1..n |-> Num(c)]])

ConstantInputs ==
    { ConstantSeries(n, c) :
        n \in {1, CoreWindow, CoreWindow + 1, CoreWindow + 5, MaxBars},
        c \in {BasePrice, BasePrice + MaxStep} }

(* a flat series whose low is one lower on the single bar DentBar: KMJ2   *)
(* and KMJ3 of the last bars differ by less than 0.1%                      *)
DentInputs ==
    { WithCell(BarSeries(n, 0, 0, 0, 0), "low", DentBar, Num(BasePrice - 2)) :
        n \in {CoreWindow + 5, MaxBars} }

(* three bars that carry KMJ2 and KMJ3, the middle one undefined in one or *)
(* both columns                                                            *)
GapFrame(a2, a3, g2, g3, b2, b3) ==
    Frame(3, ("KMJ2" :> <<a2, g2, b2>>) @@ ("KMJ3" :> <<a3, g3, b3>>))

GapInputs ==
    { GapFrame(RatInt(a), RatInt(1000), g2, g3, RatInt(b), RatInt(1000)) :
        a \in {999, 1001}, b \in {999, 1001},
        g2 \in {RatNaN, RatInt(1000)}, g3 \in {RatNaN, RatInt(1000)} }

Inputs ==
    GapInputs \cup TouchInputs \cup BlockInputs \cup MomentumInputs \cup DentInputs \cup CleanInputs \cup DefectInputs \cup PairInputs \cup LimitInputs
    \cup ScoreInputs \cup VolumeInputs \cup AnnotatedInputs \cup TrendInputs
    \cup StockInputs \cup ConstantInputs
    \cup {NoneObj, EmptyDataFrame}

(* st.session_state: the sidebar choices screen_stocks is called with,     *)
(* lines 295-308 and 400-406                                               *)
Settings(min_score, category, board, max_stocks) ==
    [min_score |-> min_score, category |-> category, board |-> board,
     max_stocks |-> max_stocks, industry |-> "all", sort_by |-> "score"]

DefaultSettings == Settings(0, "all", "all", 50)

StockSettings ==
    { Settings(min_score, category, board, max_stocks) :
        min_score \in {0, 70}, category \in {"all", "tech"},
        board \in {"all", "main"}, max_stocks \in 1..(MaxStocks - 1) }

(* the sidebar of main: a stored industry, kept under a selected category  *)
(* only, and the sort order as well                                        *)
SidebarSettings ==
    { [Settings(min_score, ci[1], "all", max_stocks)
         EXCEPT !.industry = ci[2], !.sort_by = sort_by] :
        min_score \in {0, 70},
        ci \in {<<"all", "all">>, <<"tech", "all">>, <<"tech", "chip">>},
        max_stocks \in 1..(MaxStocks - 1), sort_by \in {"score", "symbol"} }

Init ==
    /\ \/ data \in Inputs /\ settings = DefaultSettings
       \/ data \in StockInputs /\ settings \in StockSettings
       \/ data \in ListedInputs /\ settings \in SidebarSettings
    /\ ret = NoRet
    /\ err = "none"
    /\ op = "init"
    /\ calls = 0
    /\ fetch = FetchIdle

(* a call is made once the caller has bound the value of the previous one *)
Call(name, r) ==
    /\ err = "none"
    /\ ret = NoRet
    /\ calls < MaxCalls
    /\ ret' = r.ret
    /\ err' = r.err
    /\ data' = r.data
    /\ op' = name
    /\ calls' = calls + 1
    /\ UNCHANGED <<settings, fetch>>

CallCoreIndicators == Call("core.calculate_kmj_indicators", CoreCalculateKmjIndicators(data))

CallCoreSignals == Call("core.get_kmj_signals", CoreGetKmjSignals(data))

CallAnalyzerIndicators ==
    Call("analyzer.calculate_kmj_indicators", AnalyzerCalculateKmjIndicators(data))

CallAnalyzerSignals == Call("analyzer.calculate_signals", AnalyzerCalculateSignals(data))

CallAddTrend == Call("kmj.add_trend_indicator", AddTrendIndicator(data))

CallKmjIndicators == Call("kmj.calculate_kmj_indicators", CalculateKmjIndicators(data))

CallKmjSignals == Call("kmj.get_kmj_signals", GetKmjSignals(data))

CallCoreScore == Call("core.calculate_technical_score", CoreCalculateTechnicalScore(data))

CallAppScore == Call("app.calculate_technical_score", AppCalculateTechnicalScore(data))

CallScreenStocks ==
    \E r \in ScreenStocks(data, settings.min_score, settings.category, settings.board,
                           settings.max_stocks) :
        Call("app.screen_stocks", r)

(* main runs its sidebar and the screening on a non-empty stock list *)
CallMainScreening ==
    /\ IsFrame(data) /\ ~IsEmpty(data)
    /\ {"symbol", "industry_category", "industry", "technical_score"} \subseteq DOMAIN data.cols
    /\ \E r \in MainScreening(data, settings) : Call("app.main", r)

(* data = f(data): the caller binds the returned frame *)
Rebind ==
    /\ err = "none"
    /\ ret.kind \in {"frame", "None"}
    /\ data' = ret
    /\ ret' = NoRet
    /\ op' = "rebind"
    /\ UNCHANGED <<err, calls, settings, fetch>>

(* score = f(data): the caller binds the returned value to another name,   *)
(* data stays what the call left                                           *)
KeepData ==
    /\ err = "none"
    /\ ret # NoRet
    /\ ret' = NoRet
    /\ op' = "keep"
    /\ UNCHANGED <<data, err, calls, settings, fetch>>

Next ==
    \/ CallCoreIndicators
    \/ CallCoreSignals
    \/ CallAnalyzerIndicators
    \/ CallAnalyzerSignals
    \/ CallAddTrend
    \/ CallKmjIndicators
    \/ CallKmjSignals
    \/ CallCoreScore
    \/ CallAppScore
    \/ CallScreenStocks
    \/ CallMainScreening
    \/ Rebind
    \/ KeepData

Spec == Init /\ [][Next]_vars

----------------------------------------------------------------------------
(* One call of get_stock_data, step by step *)

TsCodes ==
    { <<"6", "0", "0", "0", "0", "0", ".", "S", "H">>,
      <<"0", "0", "0", "0", "0", "1", ".", "S", "Z">>,
      <<"6", "0", "0", "0", "0", "0", ".", "S", "S">>,
      <<"0", "0", "0", "0", "0", "0", ".", "X", "X">>,
      <<"6", "0", "0", "0", "0", ".", "S", "H">>,
      <<"6", "0", "0", "0", "0", "A", ".", "S", "H">>,
      <<"6", "0", "0", "0", "0", "0">>,
      <<"6", "0", "0", ".", "0", "0", "0", ".", "S", "H">>,
      <<>> }

(* the cache file: absent, older than CACHE_EXPIRY, shorter than days,     *)
(* unreadable, or fresh and long enough                                    *)
CacheStates == {"absent", "expired", "short", "unreadable", "fresh"}

FetchInit ==
    /\ data = NoneObj
    /\ ret = NoRet
    /\ err = "none"
    /\ op = "init"
    /\ calls = 0
    /\ settings = DefaultSettings
    /\ \E c \in TsCodes, cache \in CacheStates : fetch = FetchState("validate", c, cache, 0, <<>>)

FetchReturn(value, log) ==
    /\ ret' = value
    /\ fetch' = [fetch EXCEPT !.pc = "done", !.log = log]
    /\ UNCHANGED <<data, err, op, calls, settings>>

FetchGoto(pc, log) ==
    /\ fetch' = [fetch EXCEPT !.pc = pc, !.log = log]
    /\ UNCHANGED <<data, ret, err, op, calls, settings>>

(* lines 222-234 *)
FetchValidate ==
    /\ fetch.pc = "validate"
    /\ IF ~IsValidStockCode(fetch.ts_code) THEN FetchReturn(NoneObj, fetch.log)
       ELSE IF IsTestCode(fetch.ts_code) THEN FetchReturn(NoneObj, fetch.log)
       ELSE FetchGoto("cache", fetch.log)

(* lines 237-248 *)
FetchCache ==
    /\ fetch.pc = "cache"
    /\ IF fetch.cache = "fresh" THEN FetchReturn(Fetched("cache"), fetch.log)
       ELSE FetchGoto("akshare", fetch.log)

(* lines 255-307: ak.stock_zh_a_hist delivers rows, or an empty frame or   *)
(* None, or raises, or delivers rows whose columns make the lines after    *)
(* raise                                                                   *)
FetchAkshare ==
    /\ fetch.pc = "akshare"
    /\ \E o \in {"data", "empty", "raises", "malformed"} :
          IF o = "data" THEN FetchReturn(Fetched("akshare"), Append(fetch.log, <<"akshare", o>>))
          ELSE FetchGoto("tdx", Append(fetch.log, <<"akshare", o>>))

(* connect_tdx, lines 54-61: the next server accepts, refuses or raises *)
FetchConnectTdx ==
    /\ fetch.pc = "tdx" /\ fetch.server < TdxServers
    /\ \E o \in {"connected", "refused", "raises"} :
          IF o = "connected" THEN FetchGoto("bars", fetch.log)
          ELSE /\ fetch' = [fetch EXCEPT !.server = @ + 1]
               /\ UNCHANGED <<data, ret, err, op, calls, settings>>

(* lines 63-64 and 313-316: no server left, connect_tdx returns None and   *)
(* get_stock_data returns None                                             *)
FetchNoTdxServer ==
    /\ fetch.pc = "tdx" /\ fetch.server = TdxServers
    /\ FetchReturn(NoneObj, Append(fetch.log, <<"tdx", "no_server">>))

(* lines 318-358: get_security_bars delivers bars, or nothing, or None,    *)
(* on which len(batch) raises                                              *)
FetchTdxBars ==
    /\ fetch.pc = "bars"
    /\ \E o \in {"data", "empty", "raises"} :
          IF o = "data" THEN FetchReturn(Fetched("tdx"), Append(fetch.log, <<"tdx", o>>))
          ELSE FetchGoto("yfinance", Append(fetch.log, <<"tdx", o>>))

(* lines 361-398 *)
FetchYfinance ==
    /\ fetch.pc = "yfinance"
    /\ \E o \in {"data", "empty", "raises"} :
          FetchReturn(IF o = "data" THEN Fetched("yfinance") ELSE NoneObj,
                      Append(fetch.log, <<"yfinance", o>>))

FetchNext ==
    \/ FetchValidate
    \/ FetchCache
    \/ FetchAkshare
    \/ FetchConnectTdx
    \/ FetchNoTdxServer
    \/ FetchTdxBars
    \/ FetchYfinance

FetchSpec == FetchInit /\ [][FetchNext]_vars

----------------------------------------------------------------------------
(* Properties *)

CoreIndicatorsOp == "core.calculate_kmj_indicators"
CoreSignalsOp == "core.get_kmj_signals"
AnalyzerIndicatorsOp == "analyzer.calculate_kmj_indicators"
AnalyzerSignalsOp == "analyzer.calculate_signals"
AddTrendOp == "kmj.add_trend_indicator"
KmjIndicatorsOp == "kmj.calculate_kmj_indicators"
KmjSignalsOp == "kmj.get_kmj_signals"
CoreScoreOp == "core.calculate_technical_score"
AppScoreOp == "app.calculate_technical_score"
ScreenOp == "app.screen_stocks"
MainOp == "app.main"

(* a bar series: a frame with the four price columns *)
IsBarSeries(f) == IsFrame(f) /\ OHLC \subseteq DOMAIN f.cols

BarComplete(f, j) == \A c \in OHLC : IsNum(f.cols[c][j])

CompleteOHLC(f) == IsBarSeries(f) /\ \A j \in 1..f.n : BarComplete(f, j)

(* rows are numbered from 0 as in the source; Def and Undef take that index *)
Def(f, c, i) == HasCol(f, c) /\ IsNum(At(f.cols[c], i))
Undef(f, c, i) == ~HasCol(f, c) \/ IsNaN(At(f.cols[c], i))

Rows(f) == 0..(f.n - 1)

PriceSum(f, i) ==
    At(f.cols["low"], i).v + At(f.cols["high"], i).v + At(f.cols["open"], i).v
    + 3 * At(f.cols["close"], i).v

(* C1: for every non-empty series with numeric open, high, low and close in *)
(* every bar, the core transform returns KMJ1 defined at every bar and     *)
(* equal to (low + high + open + 3*close) / 6.                             *)
C1_KMJ1Formula ==
    (op = CoreIndicatorsOp /\ CompleteOHLC(data) /\ data.n >= 1) =>
        /\ err = "none"
        /\ IsFrame(ret) /\ ret.n = data.n
        /\ \A i \in Rows(data) :
              /\ Def(ret, "KMJ1", i)
              /\ At(ret.cols["KMJ1"], i).den = Big(6)
              /\ At(ret.cols["KMJ1"], i).num = Big(PriceSum(data, i))

C1_Witness ==
    /\ op = CoreIndicatorsOp /\ CompleteOHLC(data) /\ data.n >= 25 /\ err = "none"
    /\ \E i \in Rows(data) : At(data.cols["close"], i) # At(data.cols["open"], i)
    /\ \A i \in Rows(data) : Def(ret, "KMJ1", i)

(* C2 as stated: for every series with complete OHLC the core transform    *)
(* raises no error, KMJ2 is undefined below index 20 and defined from 20   *)
(* on, and under 21 bars every KMJ2 and KMJ3 is undefined.                 *)
C2_Original ==
    (op = CoreIndicatorsOp /\ CompleteOHLC(data)) =>
        /\ err = "none"
        /\ \A i \in Rows(data) :
              /\ i < 20 => (HasCol(ret, "KMJ2") /\ Undef(ret, "KMJ2", i))
              /\ i >= 20 => Def(ret, "KMJ2", i)
              /\ data.n < 21 => (HasCol(ret, "KMJ3") /\ Undef(ret, "KMJ3", i))

(* C2 amended: the same for every non-empty series with complete OHLC.     *)
C2_KMJ2Defined ==
    (op = CoreIndicatorsOp /\ CompleteOHLC(data) /\ data.n >= 1) =>
        /\ err = "none"
        /\ IsFrame(ret) /\ ret.n = data.n
        /\ \A i \in Rows(data) :
              /\ i < 20 => (HasCol(ret, "KMJ2") /\ Undef(ret, "KMJ2", i))
              /\ i >= 20 => Def(ret, "KMJ2", i)
              /\ data.n < 21 => (HasCol(ret, "KMJ3") /\ Undef(ret, "KMJ3", i))

C2_Witness ==
    /\ op = CoreIndicatorsOp /\ CompleteOHLC(data) /\ data.n >= 22 /\ err = "none"
    /\ Undef(ret, "KMJ2", 19) /\ Def(ret, "KMJ2", 20) /\ Def(ret, "KMJ2", 21)

(* the weighted sum the claim C3 describes: bar i-20+k carries weight k+1, *)
(* so the oldest bar i-20 carries 1 and the most recent bar i carries 21   *)
RECURSIVE RecentWeightedSum(_, _, _)
RecentWeightedSum(kmj1, i, k) ==
    IF k = 21 THEN BigZero
    ELSE BigAdd(BigMulSmall(At(kmj1, i - 20 + k).num, k + 1),
                RecentWeightedSum(kmj1, i, k + 1))

(* C3: for at least 25 bars and every i >= 20, KMJ2[i] of src/stock_analyzer.py *)
(* is the sum of KMJ1 over bars i-20..i, weight 21 on bar i decreasing to  *)
(* weight 1 on bar i-20, divided by 231.                                   *)
C3_RecentBarHeaviest ==
    (op = AnalyzerIndicatorsOp /\ err = "none" /\ CompleteOHLC(data) /\ data.n >= 25) =>
        \A i \in Rows(data) : i >= 20 =>
            /\ Def(ret, "KMJ2", i)
            /\ At(ret.cols["KMJ2"], i).den = Big(6 * 231)
            /\ At(ret.cols["KMJ2"], i).num = RecentWeightedSum(ret.cols["KMJ1"], i, 0)

(* C4: in the series the core transform returns for a bar series, KMJ3[i]  *)
(* is the mean of KMJ2[i-4..i] when all five are defined and undefined     *)
(* otherwise; with complete OHLC it is undefined below index 24 and        *)
(* defined from 24 on.                                                     *)
C4_KMJ3Mean ==
    (op = CoreIndicatorsOp /\ err = "none" /\ IsBarSeries(data)) =>
        /\ IsFrame(ret)
        /\ \A i \in Rows(ret) :
              IF i >= 4 /\ \A m \in 0..4 : Def(ret, "KMJ2", i - m)
              THEN /\ Def(ret, "KMJ3", i)
                   /\ At(ret.cols["KMJ3"], i).den = BigMulSmall(At(ret.cols["KMJ2"], i).den, 5)
                   /\ At(ret.cols["KMJ3"], i).num =
                        BigAdd(At(ret.cols["KMJ2"], i).num,
                          BigAdd(At(ret.cols["KMJ2"], i - 1).num,
                            BigAdd(At(ret.cols["KMJ2"], i - 2).num,
                              BigAdd(At(ret.cols["KMJ2"], i - 3).num,
                                     At(ret.cols["KMJ2"], i - 4).num))))
              ELSE Undef(ret, "KMJ3", i)
        /\ CompleteOHLC(data) =>
              \A i \in Rows(ret) : IF i < 24 THEN Undef(ret, "KMJ3", i) ELSE Def(ret, "KMJ3", i)

C4_Witness ==
    /\ op = CoreIndicatorsOp /\ err = "none" /\ CompleteOHLC(data) /\ ret.n >= 26
    /\ Undef(ret, "KMJ3", 23) /\ Def(ret, "KMJ3", 24) /\ Def(ret, "KMJ3", 25)
    /\ At(ret.cols["KMJ2"], 24) # At(ret.cols["KMJ2"], 25)

(* C5: given an empty or a None series the core transform raises           *)
(* ValueError to its caller and returns nothing.                           *)
C5_EmptyRaises ==
    (op = CoreIndicatorsOp /\ (IsNone(data) \/ IsEmpty(data))) =>
        (err = "ValueError" /\ ret = NoRet)

C5_Witness ==
    /\ op = CoreIndicatorsOp /\ IsFrame(data) /\ IsEmpty(data)
    /\ err = "ValueError" /\ ret = NoRet

(* C6: calculate_kmj_indicators and calculate_signals of src/stock_analyzer.py *)
(* leave the series they were passed exactly as it was.                    *)
C6_InputUnchanged ==
    [][(op' \in {AnalyzerIndicatorsOp, AnalyzerSignalsOp} /\ err' = "none") => data' = data]_vars

(* C7: with a missing or non-numeric price in some bar the core transform  *)
(* raises nothing and returns KMJ1 undefined at the incomplete bars and    *)
(* equal to the formula at every complete bar.                             *)
C7_IncompleteBarOnly ==
    (op = CoreIndicatorsOp /\ IsBarSeries(data) /\ data.n >= 1 /\ ~CompleteOHLC(data)) =>
        /\ err = "none"
        /\ IsFrame(ret) /\ HasCol(ret, "KMJ1")
        /\ \A i \in Rows(data) :
              IF BarComplete(data, i + 1)
              THEN /\ Def(ret, "KMJ1", i)
                   /\ At(ret.cols["KMJ1"], i) = Rat(Big(PriceSum(data, i)), Big(6))
              ELSE Undef(ret, "KMJ1", i)

BandLabel(k2, k3) ==
    LET ab == RatAlign(k2, k3)
        a == BigMulSmall(ab[1], 1000)
        up == BigMulSmall(ab[2], 1001)
        down == BigMulSmall(ab[2], 999)
        pos == BigLess(BigZero, ab[2])
    IN  IF (pos /\ BigLess(up, a)) \/ (~pos /\ BigLess(a, up)) THEN 1
        ELSE IF (pos /\ BigLess(a, down)) \/ (~pos /\ BigLess(down, a)) THEN -1
        ELSE 0

(* C9: where KMJ2 and KMJ3 are defined and KMJ3 # 0, add_trend_indicator   *)
(* sets KMJ_TREND to 1 if KMJ2/KMJ3 - 1 > 0.001, to -1 if it is < -0.001   *)
(* and to 0 otherwise, and bars with the same pair get the same label.     *)
C9_TrendBand ==
    (op = AddTrendOp /\ err = "none" /\ IsFrame(data) /\ ~IsEmpty(data)
        /\ HasCol(data, "KMJ2") /\ HasCol(data, "KMJ3")) =>
        /\ IsFrame(ret) /\ HasCol(ret, "KMJ_TREND") /\ ret.n = data.n
        /\ \A i \in Rows(data) :
              (Def(data, "KMJ2", i) /\ Def(data, "KMJ3", i)
                  /\ At(data.cols["KMJ3"], i).num # BigZero) =>
                 At(ret.cols["KMJ_TREND"], i) =
                    IntCell(BandLabel(At(data.cols["KMJ2"], i), At(data.cols["KMJ3"], i)))
        /\ \A i, j \in Rows(data) :
              (At(data.cols["KMJ2"], i) = At(data.cols["KMJ2"], j)
                  /\ At(data.cols["KMJ3"], i) = At(data.cols["KMJ3"], j)) =>
                 At(ret.cols["KMJ_TREND"], i) = At(ret.cols["KMJ_TREND"], j)

C9_Witness ==
    /\ op = AddTrendOp /\ err = "none" /\ IsFrame(ret) /\ HasCol(ret, "KMJ_TREND") /\ ret.n = 2
    /\ Def(data, "KMJ2", 0) /\ Def(data, "KMJ3", 0)
    /\ Gt(At(data.cols["KMJ2"], 0), At(data.cols["KMJ3"], 0))
    /\ At(ret.cols["KMJ_TREND"], 0) = IntCell(0)
    /\ At(ret.cols["KMJ_TREND"], 1) = IntCell(1)

(* C10: KMJ_BUY_SIGNAL[i] of the core get_kmj_signals is true exactly when *)
(* i >= 1, KMJ2 and KMJ3 are defined at i-1 and i, KMJ2[i-1] <= KMJ3[i-1]  *)
(* and KMJ2[i] > KMJ3[i].                                                  *)
C10_BuyIffCrossing ==
    (op = CoreSignalsOp /\ err = "none" /\ IsFrame(ret) /\ HasCol(ret, "KMJ_BUY_SIGNAL")
        /\ HasCol(ret, "KMJ2") /\ HasCol(ret, "KMJ3")) =>
        \A i \in Rows(ret) :
            At(ret.cols["KMJ_BUY_SIGNAL"], i).v =
               (/\ i >= 1
                /\ Le(At(ret.cols["KMJ2"], i - 1), At(ret.cols["KMJ3"], i - 1))
                /\ Gt(At(ret.cols["KMJ2"], i), At(ret.cols["KMJ3"], i)))

(* C11: sell_signal[i] of calculate_signals in src/stock_analyzer.py is    *)
(* true exactly when i >= 1, KMJ2 and KMJ3 are defined at i-1 and i,       *)
(* KMJ2[i-1] >= KMJ3[i-1] and KMJ2[i] < KMJ3[i]; it is false at bar 0 and  *)
(* wherever one of the four values is undefined.                           *)
C11_SellIffCrossing ==
    (op = AnalyzerSignalsOp /\ IsFrame(data) /\ HasCol(data, "sell_signal")) =>
        \A i \in Rows(data) :
            At(data.cols["sell_signal"], i).v =
               (/\ i >= 1
                /\ Def(data, "KMJ2", i - 1) /\ Def(data, "KMJ3", i - 1)
                /\ Def(data, "KMJ2", i) /\ Def(data, "KMJ3", i)
                /\ Ge(At(data.cols["KMJ2"], i - 1), At(data.cols["KMJ3"], i - 1))
                /\ Lt(At(data.cols["KMJ2"], i), At(data.cols["KMJ3"], i)))

C11_Witness ==
    /\ op = AnalyzerSignalsOp /\ err = "none" /\ IsFrame(ret) /\ ret.n >= 25
    /\ HasCol(ret, "sell_signal")
    /\ \E i \in Rows(ret) : At(ret.cols["sell_signal"], i).v
    /\ \E i \in Rows(ret) : i >= 1 /\ Undef(ret, "KMJ3", i - 1) /\ Def(ret, "KMJ3", i)
                              /\ ~At(ret.cols["sell_signal"], i).v

(* C12: limit_up[i] of calculate_signals in src/stock_analyzer.py is true  *)
(* exactly when i >= 1 and 10000*close[i] > 10985*close[i-1]: false at bar *)
(* 0 and for a close exactly on the threshold, whatever KMJ2 and KMJ3 are. *)
C12_LimitUpThreshold ==
    (op = AnalyzerSignalsOp /\ err = "none") =>
        /\ IsFrame(ret) /\ HasCol(ret, "limit_up") /\ ret.n = data.n
        /\ \A i \in Rows(ret) :
              At(ret.cols["limit_up"], i).v =
                 (/\ i >= 1
                  /\ Def(ret, "close", i) /\ Def(ret, "close", i - 1)
                  /\ 10000 * At(ret.cols["close"], i).v
                        > 10985 * At(ret.cols["close"], i - 1).v)

C12_Witness ==
    /\ op = AnalyzerSignalsOp /\ err = "none" /\ IsFrame(ret) /\ ret.n = 3
    /\ At(ret.cols["close"], 1).v > At(ret.cols["close"], 0).v
    /\ At(ret.cols["limit_up"], 1).v
    /\ 10000 * At(ret.cols["close"], 2).v = 10985 * At(ret.cols["close"], 1).v
    /\ ~At(ret.cols["limit_up"], 2).v
    /\ At(ret.cols["buy_signal"], 2).v

(* C13: every value calculate_technical_score returns, in                 *)
(* src/src/core/stock_analyzer.py and in src/app.py, lies in [0, 100].     *)
C13_ScoreInRange ==
    (op \in {CoreScoreOp, AppScoreOp}) =>
        /\ err = "none" /\ IsScore(ret)
        /\ ~FracLess(ScoreOf(ret), FracInt(0))
        /\ ~FracLess(FracInt(100), ScoreOf(ret))

C13_Witness ==
    /\ op = CoreScoreOp /\ IsFrame(data) /\ data.n >= 25 /\ HasCol(data, "volume")
    /\ ~CoreScoreRaises(CoreScoreFrame(data))
    /\ FracLess(FracInt(100), CoreScoreSum(CoreScoreFrame(data)))
    /\ FracEq(ScoreOf(ret), FracInt(100))

(* C14: calculate_technical_score of src/app.py never passes an error to  *)
(* its caller: it returns exactly 0.0 whenever a step raises, and for a    *)
(* None or empty series.                                                   *)
C14_AppScoreNeverRaises ==
    (op = AppScoreOp) =>
        /\ err = "none" /\ IsScore(ret)
        /\ (IsNone(data) \/ IsEmpty(data)) => ScoreOf(ret) = FracInt(0)
        /\ (IsFrame(data) /\ ~IsEmpty(data) /\ AppScoreRaises(AppScoreFrame(data))) =>
              ScoreOf(ret) = FracInt(0)

C14_Witness ==
    /\ op = AppScoreOp /\ err = "none" /\ IsFrame(data) /\ data.n > 5
    /\ HasCol(data, "close") /\ Latest(data, "close").k = "str"
    /\ MomentumRaises(AppScoreFrame(data))
    /\ ScoreOf(ret) = FracInt(0)

(* closes that move by the same non-zero amount d from each bar to the next *)
EvenTrend(f, d) ==
    \A i \in Rows(f) : i >= 1 =>
        At(f.cols["close"], i).v - At(f.cols["close"], i - 1).v = d

ConstantVolume(f) ==
    /\ HasCol(f, "volume")
    /\ \A i \in Rows(f) : IsNum(At(f.cols["volume"], i))
                           /\ At(f.cols["volume"], i) = At(f.cols["volume"], 0)

LowHighBracket(f) ==
    \A j \in 1..f.n :
        /\ f.cols["low"][j].v <= Min2(f.cols["open"][j].v, f.cols["close"][j].v)
        /\ f.cols["high"][j].v >= Max2(f.cols["open"][j].v, f.cols["close"][j].v)

(* C15: for every 30-bar series with evenly rising closes and constant    *)
(* volume, whatever open, high and low are within low <= open, close <=    *)
(* high, the core calculate_technical_score returns more than 50, and with *)
(* evenly falling closes less than 50.                                     *)
C15_TrendDecidesScore ==
    (op = CoreScoreOp /\ CompleteOHLC(data) /\ data.n = TrendBars
        /\ ConstantVolume(data) /\ LowHighBracket(data)) =>
        /\ (\E d \in 1..MaxJump : EvenTrend(data, d)) => FracLess(FracInt(50), ScoreOf(ret))
        /\ (\E d \in 1..MaxJump : EvenTrend(data, 0 - d)) => FracLess(ScoreOf(ret), FracInt(50))

(* the candidates of C16: rows of the stock list with technical_score >=   *)
(* min_score that match the selected category and board                    *)
Candidates ==
    Matching(data, settings.min_score, settings.category, settings.board)

(* the stock-list row a returned row came from: symbols are unique *)
Origin(r) == CHOOSE j \in 1..data.n : data.cols["symbol"][j] = ret.cols["symbol"][r]

ReturnedScore(r) == ret.cols["technical_score"][r].v
ListedScore(j) == data.cols["technical_score"][j].v

Screened == op = ScreenOp /\ err = "none" /\ IsFrame(data) /\ data.n >= 1

(* min(max_stocks, m) rows, each a different candidate, no candidate left  *)
(* out that scores higher than one returned, by score descending           *)
TopByScore ==
    /\ IsFrame(ret) /\ ret.n = Min2(settings.max_stocks, Cardinality(Candidates))
    /\ \A r \in 1..ret.n :
          /\ Origin(r) \in Candidates
          /\ \A c \in DOMAIN data.cols : ret.cols[c][r] = data.cols[c][Origin(r)]
    /\ \A r, q \in 1..ret.n : r # q => Origin(r) # Origin(q)
    /\ \A r \in 1..ret.n : \A j \in Candidates :
          ListedScore(j) > ReturnedScore(r) => \E q \in 1..ret.n : Origin(q) = j
    /\ \A r \in 1..(ret.n - 1) : ReturnedScore(r) >= ReturnedScore(r + 1)

(* equal scores in stock-list order, and at the cut the earlier row of     *)
(* equal scores is the one returned                                        *)
TiesInListOrder ==
    /\ \A r \in 1..(ret.n - 1) :
          ReturnedScore(r) = ReturnedScore(r + 1) => Origin(r) < Origin(r + 1)
    /\ \A r \in 1..ret.n : \A j \in Candidates :
          (ListedScore(j) = ReturnedScore(r) /\ j < Origin(r)) =>
              \E q \in 1..ret.n : Origin(q) = j

(* C16 as stated: screen_stocks returns min(max_stocks, m) rows, the       *)
(* candidates with the highest scores, by score descending, equal scores   *)
(* in their original order also at the cut-off.                            *)
C16_Original == Screened => (TopByScore /\ TiesInListOrder)

(* C16 amended: the same, with equal scores in their original order when   *)
(* max_stocks is below m; with max_stocks >= m all m candidates come back  *)
(* by score descending and equal scores in no fixed order.                 *)
C16_TopRows ==
    Screened =>
        /\ TopByScore
        /\ settings.max_stocks < Cardinality(Candidates) => TiesInListOrder

C16_Witness ==
    /\ Screened /\ IsFrame(ret)
    /\ settings.max_stocks < Cardinality(Candidates)
    /\ ret.n = settings.max_stocks
    /\ \E j \in Candidates :
          /\ ListedScore(j) = ReturnedScore(ret.n)
          /\ \A q \in 1..ret.n : Origin(q) # j
    /\ \E j \in 1..data.n : j \notin Candidates

(* C17: in the core calculate_kmj_indicators the window of KMJ2[i], i >=   *)
(* 20, is bars i-20..i including bar i, KMJ1[i] carrying the largest       *)
(* weight: so when KMJ1 is the same on bars i-20..i-1 and different on bar *)
(* i, KMJ2[i] differs from that common value.                              *)
C17_CurrentBarInWindow ==
    (op = CoreIndicatorsOp /\ err = "none" /\ CompleteOHLC(data) /\ data.n >= 21) =>
        \A i \in Rows(data) :
            (/\ i >= 20
             /\ \A m \in 1..20 : At(ret.cols["KMJ1"], i - m) = At(ret.cols["KMJ1"], i - 1)
             /\ At(ret.cols["KMJ1"], i) # At(ret.cols["KMJ1"], i - 1)) =>
                At(ret.cols["KMJ2"], i).num #
                    BigMulSmall(Big(CoreWeightSum), BigToInt(At(ret.cols["KMJ1"], i - 1).num))

(* C18: calculate_kmj2 of src/kmj_indicator.py computes no KMJ2 from fewer *)
(* than 21 bars: after calculate_kmj_indicators on a bar series KMJ2[i] is *)
(* undefined for every i < 20 and KMJ3[i] is undefined for every i < 24.   *)
C18_FullWindowOnly ==
    (op = KmjIndicatorsOp /\ IsBarSeries(data) /\ data.n >= 1) =>
        \A i \in Rows(ret) :
            /\ i < 20 => Undef(ret, "KMJ2", i)
            /\ i < 24 => Undef(ret, "KMJ3", i)

(* the bar series f has open = high = low = close = c on every bar *)
IsConstantSeries(f, c) ==
    IsBarSeries(f) /\ f.n >= 1 /\ \A col \in OHLC : \A j \in 1..f.n : f.cols[col][j] = Num(c)

(* the cell is the number c *)
IsPrice(cell, c) == IsNum(cell) /\ cell.num = BigMulSmall(cell.den, c)

ConstantPrices == {BasePrice, BasePrice + MaxStep}

(* C19: for a constant-price series (open = high = low = close = C on every *)
(* bar) the core calculate_kmj_indicators gives KMJ1[i] = C at every bar,   *)
(* KMJ2[i] = C wherever KMJ2 is defined and KMJ3[i] = C wherever KMJ3 is    *)
(* defined.                                                                 *)
C19_ConstantSeries ==
    \A c \in ConstantPrices :
        (op = CoreIndicatorsOp /\ IsConstantSeries(data, c)) =>
            /\ err = "none" /\ IsFrame(ret) /\ ret.n = data.n
            /\ \A i \in Rows(data) :
                  /\ IsPrice(At(ret.cols["KMJ1"], i), c)
                  /\ Def(ret, "KMJ2", i) => IsPrice(At(ret.cols["KMJ2"], i), c)
                  /\ Def(ret, "KMJ3", i) => IsPrice(At(ret.cols["KMJ3"], i), c)

C19_Witness ==
    /\ op = CoreIndicatorsOp /\ IsConstantSeries(data, BasePrice + MaxStep)
    /\ data.n = MaxBars
    /\ Def(ret, "KMJ2", CoreWindow) /\ Def(ret, "KMJ3", CoreWindow + 4)
    /\ Undef(ret, "KMJ2", CoreWindow - 1)

(* C20: the KMJ_TREND column of the core calculate_kmj_indicators follows   *)
(* the three-state band rule on every defined pair with KMJ3 > 0: 1 only if *)
(* KMJ2/KMJ3 - 1 > 0.001, -1 only if it is < -0.001, and 0 whenever         *)
(* |KMJ2/KMJ3 - 1| <= 0.001.                                                *)
C20_CoreTrendBand ==
    (op = CoreIndicatorsOp /\ err = "none" /\ IsFrame(ret) /\ HasCol(ret, "KMJ_TREND")) =>
        \A i \in Rows(ret) :
            (Def(ret, "KMJ2", i) /\ Def(ret, "KMJ3", i)
                /\ BigLess(BigZero, At(ret.cols["KMJ3"], i).num)) =>
               At(ret.cols["KMJ_TREND"], i) =
                  IntCell(BandLabel(At(ret.cols["KMJ2"], i), At(ret.cols["KMJ3"], i)))

(* C21: in get_kmj_signals of src/kmj_indicator.py a bar i carries neither *)
(* signal whenever KMJ2 or KMJ3 is undefined at bar i or at bar i-1, a bar *)
(* that directly follows a gap included, and no error is raised.           *)
C21_NoSignalAcrossGap ==
    (op = KmjSignalsOp /\ IsFrame(data) /\ ~IsEmpty(data)
        /\ HasCol(data, "KMJ2") /\ HasCol(data, "KMJ3")) =>
        /\ err = "none" /\ IsFrame(ret) /\ HasCol(ret, "KMJ_BUY_SIGNAL")
        /\ HasCol(ret, "KMJ_SELL_SIGNAL")
        /\ \A i \in Rows(data) :
              (\/ Undef(data, "KMJ2", i) \/ Undef(data, "KMJ3", i)
               \/ i = 0
               \/ Undef(data, "KMJ2", i - 1) \/ Undef(data, "KMJ3", i - 1)) =>
                 /\ At(ret.cols["KMJ_BUY_SIGNAL"], i) = BoolCell(FALSE)
                 /\ At(ret.cols["KMJ_SELL_SIGNAL"], i) = BoolCell(FALSE)

(* the score the core function returns when its trend step gives `up` for  *)
(* an Up and takes `down` for a Down latest bar, the other steps as coded  *)
CoreScoreWithTrend(f, up, down) ==
    Round2(Clamp(SumOf(<<TrendTerm(f, up, down), SpreadTerm(f), CoreMomentumTerm(f),
                         CoreVolumeTerm(f)>>)))

(* C22: the core calculate_technical_score starts from 50.0 and its trend  *)
(* term, taken from the latest bar, is +30 for Up, -20 for Down and 0 for  *)
(* Flat.                                                                   *)
C22_CoreTrendTerm ==
    (op = CoreScoreOp /\ IsFrame(data) /\ ~IsEmpty(data)
        /\ ~CoreScoreRaises(CoreScoreFrame(data))) =>
        ScoreOf(ret) = CoreScoreWithTrend(CoreScoreFrame(data), 30, 20)

(* the score of src/app.py from the four steps' contributions *)
AppScoreWithTerms(terms) == Clamp(SumOf(terms))

(* the latest bar has no usable spread: KMJ2 or KMJ3 undefined or KMJ3 = 0 *)
SpreadUnusable(f) ==
    \/ ~(HasCol(f, "KMJ2") /\ HasCol(f, "KMJ3"))
    \/ IsNaN(Latest(f, "KMJ2")) \/ IsNaN(Latest(f, "KMJ3"))
    \/ Latest(f, "KMJ3").num = BigZero

(* a spread step that is skipped on an unusable latest bar *)
SpreadSkipped(f) == IF SpreadUnusable(f) THEN FracInt(0) ELSE SpreadTerm(f)

(* C23: the spread term of calculate_technical_score of src/app.py adds    *)
(* min(20, |KMJ2 - KMJ3| / KMJ3 * 100) of the latest bar, is never         *)
(* negative, and contributes exactly 0 whenever the latest KMJ3 is 0 or    *)
(* the latest KMJ2 or KMJ3 is undefined.                                   *)
C23_AppSpreadTerm ==
    (op = AppScoreOp /\ IsFrame(data) /\ ~IsEmpty(data)
        /\ ~AppScoreRaises(AppScoreFrame(data))) =>
        /\ FracEq(ScoreOf(ret),
                  AppScoreWithTerms(<<TrendTerm(AppScoreFrame(data), 30, 20),
                                      SpreadSkipped(AppScoreFrame(data)),
                                      AppMomentumTerm(AppScoreFrame(data)),
                                      AppVolumeTerm(AppScoreFrame(data))>>))
        /\ ~FracLess(SpreadTerm(AppScoreFrame(data)), FracInt(0))

(* a momentum step that takes min(20, |pct|) off for a pct <= 0 *)
MomentumBothWays(f) ==
    LET pc == PriceChange(f)
    IN  IF FracLess(FracInt(0), pc.v) THEN PyMin(FracInt(20), pc.v)
        ELSE FracNeg(PyMin(FracInt(20), FracAbs(pc.v)))

(* C24: for a series of at least 6 bars the momentum term of the score of  *)
(* src/app.py uses pct = (close[last] / close[last-5] - 1) * 100: a pct > 0 *)
(* gains min(20, pct) and a pct <= 0 loses min(20, |pct|).                 *)
C24_AppMomentumTerm ==
    (op = AppScoreOp /\ IsFrame(data) /\ data.n >= 6
        /\ ~AppScoreRaises(AppScoreFrame(data))
        /\ PriceChange(AppScoreFrame(data)).k = "num") =>
        FracEq(ScoreOf(ret),
               AppScoreWithTerms(<<TrendTerm(AppScoreFrame(data), 30, 20),
                                   SpreadTerm(AppScoreFrame(data)),
                                   MomentumBothWays(AppScoreFrame(data)),
                                   AppVolumeTerm(AppScoreFrame(data))>>))

(* C25: for a non-empty series of fewer than 6 bars the momentum term of   *)
(* the score of src/app.py is skipped without a fault: the score is the    *)
(* clamped sum of the base 50 and the remaining terms, not the value 0.0   *)
(* of a fault.                                                             *)
C25_AppShortSeries ==
    (op = AppScoreOp /\ IsFrame(data) /\ ~IsEmpty(data) /\ data.n < 6) =>
        FracEq(ScoreOf(ret),
               AppScoreWithTerms(<<TrendTerm(AppScoreFrame(data), 30, 20),
                                   SpreadTerm(AppScoreFrame(data)),
                                   FracInt(0),
                                   AppVolumeTerm(AppScoreFrame(data))>>))

(* the volume step over the prior rows lo..hi of the volume column *)
VolumeTermOver(f, lo, hi) ==
    LET v == f.cols["volume"]
        s5 == VolSum(v, f.n - 4, f.n)
        c5 == VolCount(v, f.n - 4, f.n)
        sp == VolSum(v, lo, hi)
        cp == VolCount(v, lo, hi)
        change == FracOf(WFromInt(100 * (s5 * cp - sp * c5)), WFromInt(sp * c5))
    IN  IF ~HasCol(f, "volume") \/ c5 = 0 \/ cp = 0 \/ sp <= 0 THEN FracInt(0)
        ELSE IF FracLess(FracInt(0), change) THEN PyMin(FracInt(10), FracHalf(change))
        ELSE FracNeg(PyMin(FracInt(10), FracHalf(FracAbs(change))))

(* the five bars before the trailing five from 10 bars on, else all bars *)
VolumeFromTen(f) ==
    IF f.n >= 10 THEN VolumeTermOver(f, f.n - 9, f.n - 5) ELSE VolumeTermOver(f, 1, f.n)

(* C26: the volume term of the score of src/app.py compares the mean       *)
(* volume of the trailing 5 bars with the mean of the 5 bars before them   *)
(* whenever the series has at least 10 bars and with the full-series mean  *)
(* only below 10 bars; with change = (recent / prior - 1) * 100 it adds    *)
(* min(10, change / 2) for a change > 0, subtracts min(10, |change| / 2)   *)
(* otherwise, and contributes 0 when a mean is undefined or the prior mean *)
(* is <= 0.                                                                *)
C26_AppVolumeTerm ==
    (op = AppScoreOp /\ IsFrame(data) /\ data.n >= 6
        /\ ~AppScoreRaises(AppScoreFrame(data))) =>
        FracEq(ScoreOf(ret),
               AppScoreWithTerms(<<TrendTerm(AppScoreFrame(data), 30, 20),
                                   SpreadTerm(AppScoreFrame(data)),
                                   AppMomentumTerm(AppScoreFrame(data)),
                                   VolumeFromTen(AppScoreFrame(data))>>))

(* the frames f and g get the same trend, spread and volume terms *)
SameOtherTerms(f, g) ==
    /\ FracEq(TrendTerm(f, 30, 20), TrendTerm(g, 30, 20))
    /\ FracEq(SpreadTerm(f), SpreadTerm(g))
    /\ FracEq(AppVolumeTerm(f), AppVolumeTerm(g))

(* a price change between -50 and +50 *)
InPctRange(pc) ==
    /\ pc.k = "num"
    /\ ~FracLess(pc.v, FracInt(-50)) /\ ~FracLess(FracInt(50), pc.v)

(* both price changes are beyond the same 20-point cap *)
BothSaturated(p, q) ==
    \/ ~FracLess(p, FracInt(20)) /\ ~FracLess(q, FracInt(20))
    \/ ~FracLess(FracInt(-20), p) /\ ~FracLess(FracInt(-20), q)

(* the total is at a limit of the clamp *)
AtClamp(score) == FracEq(score, FracInt(0)) \/ FracEq(score, FracInt(100))

(* C27: of two series of at least 6 bars with the same trend, spread and   *)
(* volume terms that differ in the 5-bar price change pct, both pct within *)
(* [-50, +50], the one with the larger pct never gets the smaller score of *)
(* src/app.py, and the two scores are equal only where the momentum term   *)
(* is saturated at its 20-point cap or the total is clamped at 0 or 100.   *)
C27_AppMomentumMonotone ==
    (op = AppScoreOp /\ IsFrame(data) /\ data.n >= 6
        /\ ~AppScoreRaises(AppScoreFrame(data))
        /\ InPctRange(PriceChange(AppScoreFrame(data)))) =>
        \A d2 \in MomentumInputs :
            (/\ SameOtherTerms(AppScoreFrame(data), AppScoreFrame(d2))
             /\ InPctRange(PriceChange(AppScoreFrame(d2)))
             /\ FracLess(PriceChange(AppScoreFrame(data)).v,
                         PriceChange(AppScoreFrame(d2)).v)) =>
                /\ ~FracLess(ScoreOf(AppCalculateTechnicalScore(d2).ret), ScoreOf(ret))
                /\ FracEq(ScoreOf(AppCalculateTechnicalScore(d2).ret), ScoreOf(ret)) =>
                      \/ BothSaturated(PriceChange(AppScoreFrame(data)).v,
                                       PriceChange(AppScoreFrame(d2)).v)
                      \/ AtClamp(ScoreOf(ret))

(* the rows of the stock list that satisfy every selected filter *)
Satisfying ==
    { j \in Matching(data, settings.min_score, settings.category, settings.board) :
        j \in IndustryRows(data, SelectedIndustry(data, settings)) }

(* C28: main of src/app.py applies every selected filter (minimum score,   *)
(* industry category, board, fine-grained industry) before the cut to      *)
(* max_stocks: when at least max_stocks candidates satisfy all filters the *)
(* stored filtered_stocks has exactly max_stocks rows, and it never omits  *)
(* a satisfying candidate while it holds fewer than max_stocks rows.       *)
C28_FiltersBeforeCut ==
    (op = MainOp /\ err = "none") =>
        /\ Cardinality(Satisfying) >= settings.max_stocks => ret.n = settings.max_stocks
        /\ ret.n < settings.max_stocks =>
              \A j \in Satisfying :
                  \E r \in 1..ret.n : ret.cols["symbol"][r] = data.cols["symbol"][j]

BuyBar(f, i) == At(f.cols["KMJ_BUY_SIGNAL"], i) = BoolCell(TRUE)
SellBar(f, i) == At(f.cols["KMJ_SELL_SIGNAL"], i) = BoolCell(TRUE)

(* C30: for every series with complete OHLC the signals of the core        *)
(* get_kmj_signals alternate: between two bars with KMJ_BUY_SIGNAL there   *)
(* is a bar with KMJ_SELL_SIGNAL, between two bars with KMJ_SELL_SIGNAL    *)
(* there is a bar with KMJ_BUY_SIGNAL, and no bar carries both.            *)
C30_SignalsAlternate ==
    (op = CoreSignalsOp /\ CompleteOHLC(data) /\ data.n >= 1) =>
        /\ err = "none" /\ IsFrame(ret)
        /\ HasCol(ret, "KMJ_BUY_SIGNAL") /\ HasCol(ret, "KMJ_SELL_SIGNAL")
        /\ \A i \in Rows(ret) : ~(BuyBar(ret, i) /\ SellBar(ret, i))
        /\ \A i, j \in Rows(ret) :
              (i < j /\ BuyBar(ret, i) /\ BuyBar(ret, j)) =>
                  \E k \in (i + 1)..(j - 1) : SellBar(ret, k)
        /\ \A i, j \in Rows(ret) :
              (i < j /\ SellBar(ret, i) /\ SellBar(ret, j)) =>
                  \E k \in (i + 1)..(j - 1) : BuyBar(ret, k)

(* the sources asked, in the order of the log *)
SourcesAsked == [i \in 1..Len(fetch.log) |-> fetch.log[i][1]]

Asked(source) == \E i \in 1..Len(fetch.log) : fetch.log[i][1] = source

(* C29: for a valid stock code with no fresh cache entry get_stock_data    *)
(* tries the sources in the order akshare, TDX, yfinance, each only after  *)
(* the one before it failed to deliver data; yfinance is attempted         *)
(* whenever TDX fails, also when no TDX server can be connected, and None  *)
(* is returned only after all three sources were tried.                    *)
C29_SourceOrder ==
    (fetch.pc = "done" /\ IsValidStockCode(fetch.ts_code) /\ fetch.cache # "fresh") =>
        /\ SourcesAsked \in {<<"akshare">>, <<"akshare", "tdx">>,
                              <<"akshare", "tdx", "yfinance">>}
        /\ \A i \in 1..(Len(fetch.log) - 1) : fetch.log[i][2] # "data"
        /\ \A i \in 1..Len(fetch.log) :
              (fetch.log[i][1] = "tdx" /\ fetch.log[i][2] # "data") => Asked("yfinance")
        /\ ret = NoneObj => (Asked("akshare") /\ Asked("tdx") /\ Asked("yfinance"))

====
